---- MODULE Spec2Model ----
(***************************************************************************)
(* A model of raven (dandantas/raven): the MongoDB-backed schedule lock    *)
(* repository, the cron scheduler that uses it across pods, and the        *)
(* webhook circuit breaker and dispatcher, the retry strategy, the         *)
(* executor, the worker pool and the async job registry.                   *)
(*                                                                         *)
(* The specifications share the variables:                                 *)
(*   SpecLease     the lock repository called in any order by any pod      *)
(*   SpecSched     the schedulers of several pods over one store           *)
(*   SpecShutdown  the same, with Scheduler.Stop                           *)
(*   SpecCB        the circuit breaker called in any order                 *)
(*   SpecDispatch  concurrent Dispatcher.SendAlert calls over one breaker  *)
(*   SpecSendAlert one Dispatcher.SendAlert call at a time                 *)
(*   SpecRetryStrategy  RetryStrategy built from any RetryConfig           *)
(*   SpecExecute   one Executor.Execute call with its alerts               *)
(*   SpecPool      the WorkerPool, its callers and the reader of results   *)
(*   SpecAsync     AsyncExecutor.SubmitJob calls and their goroutines      *)
(***************************************************************************)
EXTENDS Integers, Sequences, FiniteSets, TLC

\* ------------------------------------------------------------------ bounds
\* the clock stops at MaxTime (time is counted in abstract units)
MaxTime == 4
\* ttl arguments of AcquireLock / ExtendLock are drawn from 1..MaxTTL
MaxTTL == 2

Pods    == {"p1", "p2"}
Configs == {"c1", "c2"}
TTLs    == 1..MaxTTL

None == "none"

VARIABLES
  now,      \* time.Now(): the clock every pod and the store read
  locks,    \* the schedule_locks collection: a set of ScheduleLock documents
  last,     \* the call that made the latest step, its arguments, what it
            \* returned and the collection it ran against
  cb,       \* the dispatcher's CircuitBreaker (its fields)
  cbLast,   \* the latest breaker call: its name, result and the breaker before
  streak,   \* history: RecordFailure calls since the breaker became Closed or
            \* since the latest RecordSuccess, whichever is later
  openedAt, \* history: the time of the latest transition into Open
  hoSucc,   \* history: RecordSuccess calls since the breaker became HalfOpen
  calls,    \* the SendAlert calls in progress on the dispatcher, one per
            \* caller: where each is, its AlertLog and what it returned
  cfgs,     \* the health_checks collection: the scheduling fields per config
  history,  \* the execution_history collection, in insertion order
  sched,    \* per pod, its Scheduler: the run loop and the stop signal
  workers,  \* the executeHealthCheck goroutines alive, on any pod
  spawned,  \* how many executeHealthCheck goroutines were ever started
  writebacks, \* history: the UpdateScheduledRun calls made, by worker
  rs,       \* the model.RetryConfig a RetryStrategy is built from
  fn,       \* the latest RetryStrategy call: its arguments and its result
  exec,     \* one Executor.Execute call: where it is, its context, what it
            \* has evaluated and sent, and what it returned
  alertLogs, \* the alert_logs collection
  pool,     \* the WorkerPool: its two channels, its context, where Stop is
  pw,       \* per worker goroutine of the pool, where it is and its job
  sub,      \* per job, the Submit call that carries it
  poolLog,  \* history: per job, its executions, by whom, its results
  jobStore, \* the JobStatusStore: per jobId its status
  aj        \* per async job, its SubmitJob call and its goroutine

leaseVars == <<locks, last>>
cbVars == <<cb, cbLast, streak, openedAt, hoSucc>>
schedVars == <<cfgs, history, sched, workers, spawned, writebacks>>
retryVars == <<rs, fn>>
\* what no lock, breaker, dispatcher or scheduler step writes
execVars == <<exec, alertLogs>>
poolVars == <<pool, pw, sub, poolLog>>
asyncVars == <<jobStore, aj>>
otherVars == <<retryVars, execVars, poolVars, asyncVars>>
vars == <<now, locks, last, cb, cbLast, streak, openedAt, hoSucc, calls,
          cfgs, history, sched, workers, spawned, writebacks, rs, fn,
          exec, alertLogs, pool, pw, sub, poolLog, jobStore, aj>>

\* ------------------------------------------------------- schedule_locks
\* model.ScheduleLock
ScheduleLock(c, p, at, exp) ==
  [config_id |-> c, locked_by |-> p, locked_at |-> at, expires_at |-> exp]

LocksOf(store, c) == {l \in store : l.config_id = c}

\* a collection created without idx_config_id_unique
NoUniqueIndex(store, c) == FALSE

\* idx_config_id_unique: an insert of a second document with the same
\* config_id is refused with a duplicate key error
DuplicateKey(store, c) == \E l \in store : l.config_id = c

\* the filter written with $lte
AcquireFilterLte(l, c, t) == l.config_id = c /\ l.expires_at <= t

\* the filter without its expired-lock branch
AcquireFilterNoExpiry(l, c, t) == FALSE

\* The filter of AcquireLock: config_id = c and (expires_at < now or
\* expires_at does not exist).  Every document of the collection is written
\* by AcquireLock or ExtendLock and carries expires_at, so the second branch
\* matches no stored document; it is the branch under which the upsert
\* inserts.
AcquireFilter(l, c, t) == l.config_id = c /\ l.expires_at < t

\* LockRepository.AcquireLock: FindOneAndUpdate(filter, $set, upsert, After).
\*   a document matches  -> it is rewritten, the call returns true
\*   none matches        -> the upsert inserts {config_id, $set fields};
\*                          the unique index refuses it when a document of
\*                          that config exists (the unexpired lock): the
\*                          driver returns a duplicate key error, which is
\*                          not ErrNoDocuments: (false, error)
\* The result is [locks, acquired, err].
AcquireLock(store, c, p, t, ttl) ==
  LET matched == {l \in store : AcquireFilter(l, c, t)}
      doc     == ScheduleLock(c, p, t, t + ttl)
  IN  IF matched # {}
      THEN LET m == CHOOSE l \in matched : TRUE
           IN  [locks |-> (store \ {m}) \cup {doc}, acquired |-> TRUE, err |-> FALSE]
      ELSE IF DuplicateKey(store, c)
           THEN [locks |-> store, acquired |-> FALSE, err |-> TRUE]
           ELSE [locks |-> store \cup {doc}, acquired |-> TRUE, err |-> FALSE]

\* DeleteOne filtered by config_id alone
ReleaseLockAnyOwner(store, c, p) ==
  LET matched == {l \in store : l.config_id = c}
  IN  IF matched = {} THEN store
      ELSE store \ {CHOOSE l \in matched : TRUE}

\* LockRepository.ReleaseLock: DeleteOne({config_id, locked_by}); no error
\* when nothing was deleted.
ReleaseLock(store, c, p) ==
  LET matched == {l \in store : l.config_id = c /\ l.locked_by = p}
  IN  IF matched = {} THEN store
      ELSE store \ {CHOOSE l \in matched : TRUE}

\* LockRepository.ReleaseAllLocks: DeleteMany({locked_by})
ReleaseAllLocks(store, p) == {l \in store : l.locked_by # p}

\* LockRepository.CleanExpiredLocks: DeleteMany({expires_at < now}); returns
\* the deleted count.
CleanExpiredLocks(store, t) == {l \in store : ~(l.expires_at < t)}

\* LockRepository.ExtendLock: UpdateOne({config_id, locked_by},
\* $set expires_at); error when MatchedCount = 0.
ExtendLock(store, c, p, t, ttl) ==
  LET matched == {l \in store : l.config_id = c /\ l.locked_by = p}
  IN  IF matched = {} THEN [locks |-> store, err |-> TRUE]
      ELSE LET m == CHOOSE l \in matched : TRUE
           IN  [locks |-> (store \ {m}) \cup {[m EXCEPT !.expires_at = t + ttl]},
                err |-> FALSE]

\* idx_expires_at_ttl (expireAfterSeconds 0): the store's TTL monitor deletes,
\* at moments of its own choosing, a document whose expires_at has passed.
TTLExpired(l, t) == l.expires_at < t

\* ------------------------------------------------------- circuit breaker
\* CircuitState
StateClosed   == "closed"
StateOpen     == "open"
StateHalfOpen == "half-open"

\* NewCircuitBreaker: failureThreshold, successThreshold, timeout (seconds)
FailureThreshold == 5
SuccessThreshold == 2
OpenTimeout == 60

\* time.Time{}
ZeroTime == -1

\* NewCircuitBreaker at time t
NewCircuitBreaker(t) ==
  [state |-> StateClosed, failureCount |-> 0, successCount |-> 0,
   lastFailureTime |-> ZeroTime, lastStateChange |-> t]

\* the timeout compared with >
CanAttemptStrict(b, t) ==
  IF b.state = StateOpen /\ t - b.lastStateChange > OpenTimeout
  THEN [cb |-> [b EXCEPT !.state = StateHalfOpen, !.successCount = 0, !.failureCount = 0],
        ret |-> TRUE]
  ELSE [cb |-> b, ret |-> b.state # StateOpen]

\* CircuitBreaker.CanAttempt at time t: [cb, ret]
CanAttempt(b, t) ==
  CASE b.state = StateClosed -> [cb |-> b, ret |-> TRUE]
    [] b.state = StateOpen ->
         IF t - b.lastStateChange >= OpenTimeout
         THEN [cb |-> [b EXCEPT !.state = StateHalfOpen,
                                !.successCount = 0,
                                !.failureCount = 0],
               ret |-> TRUE]
         ELSE [cb |-> b, ret |-> FALSE]
    [] b.state = StateHalfOpen -> [cb |-> b, ret |-> TRUE]

\* RecordSuccess that leaves failureCount alone in Closed
RecordSuccessNoReset(b, t) ==
  LET b1 == [b EXCEPT !.lastFailureTime = ZeroTime]
  IN  IF b1.state = StateHalfOpen
      THEN LET b2 == [b1 EXCEPT !.successCount = @ + 1]
           IN  IF b2.successCount >= SuccessThreshold
               THEN [b2 EXCEPT !.state = StateClosed, !.failureCount = 0,
                               !.successCount = 0, !.lastStateChange = t]
               ELSE b2
      ELSE b1

\* RecordSuccess that closes on successCount > successThreshold
RecordSuccessLate(b, t) ==
  LET b1 == [b EXCEPT !.lastFailureTime = ZeroTime]
  IN  CASE b1.state = StateClosed -> [b1 EXCEPT !.failureCount = 0]
        [] b1.state = StateHalfOpen ->
             LET b2 == [b1 EXCEPT !.successCount = @ + 1]
             IN  IF b2.successCount > SuccessThreshold
                 THEN [b2 EXCEPT !.state = StateClosed, !.failureCount = 0,
                                 !.successCount = 0, !.lastStateChange = t]
                 ELSE b2
        [] OTHER -> b1

\* CircuitBreaker.RecordSuccess at time t
RecordSuccess(b, t) ==
  LET b1 == [b EXCEPT !.lastFailureTime = ZeroTime]
  IN  CASE b1.state = StateClosed -> [b1 EXCEPT !.failureCount = 0]
        [] b1.state = StateHalfOpen ->
             LET b2 == [b1 EXCEPT !.successCount = @ + 1]
             IN  IF b2.successCount >= SuccessThreshold
                 THEN [b2 EXCEPT !.state = StateClosed, !.failureCount = 0,
                                 !.successCount = 0, !.lastStateChange = t]
                 ELSE b2
        [] OTHER -> b1

\* a RecordFailure that leaves successCount when it reopens the circuit
RecordFailureKeepsSuccessCount(b, t) ==
  LET b1 == [b EXCEPT !.lastFailureTime = t, !.failureCount = @ + 1]
  IN  CASE b1.state = StateClosed ->
             IF b1.failureCount >= FailureThreshold
             THEN [b1 EXCEPT !.state = StateOpen, !.lastStateChange = t]
             ELSE b1
        [] b1.state = StateHalfOpen ->
             [b1 EXCEPT !.state = StateOpen, !.lastStateChange = t]
        [] OTHER -> b1

\* RecordFailure that resets lastStateChange in every state
RecordFailureRestamps(b, t) ==
  LET b1 == [b EXCEPT !.lastFailureTime = t, !.failureCount = @ + 1,
                      !.lastStateChange = t]
  IN  CASE b1.state = StateClosed ->
             IF b1.failureCount >= FailureThreshold
             THEN [b1 EXCEPT !.state = StateOpen]
             ELSE b1
        [] b1.state = StateHalfOpen ->
             [b1 EXCEPT !.state = StateOpen, !.successCount = 0]
        [] OTHER -> b1

\* CircuitBreaker.RecordFailure at time t
RecordFailure(b, t) ==
  LET b1 == [b EXCEPT !.lastFailureTime = t, !.failureCount = @ + 1]
  IN  CASE b1.state = StateClosed ->
             IF b1.failureCount >= FailureThreshold
             THEN [b1 EXCEPT !.state = StateOpen, !.lastStateChange = t]
             ELSE b1
        [] b1.state = StateHalfOpen ->
             [b1 EXCEPT !.state = StateOpen, !.lastStateChange = t,
                        !.successCount = 0]
        [] OTHER -> b1

\* CircuitBreaker.Reset at time t
Reset(b, t) ==
  [b EXCEPT !.state = StateClosed, !.failureCount = 0, !.successCount = 0,
            !.lastStateChange = t]

\* ---------------------------------------------------- the breaker alone
\* the clock of the breaker runs in seconds and moves Step seconds at a time
Step == 20
MaxSeconds == 120
\* RecordFailure counts without limit while the breaker is Open; the model
\* stops calling it at MaxFailures
MaxFailures == 7

\* a breaker call made outside any SendAlert
Direct == "direct"

CBCall(op, ret, by) == [op |-> op, ret |-> ret, at |-> now, pre |-> cb, by |-> by]

NoCBCall == [op |-> None, ret |-> FALSE, at |-> 0, pre |-> NewCircuitBreaker(0),
             by |-> Direct]

CBInit ==
  /\ cb = NewCircuitBreaker(0)
  /\ cbLast = NoCBCall
  /\ streak = 0
  /\ openedAt = 0
  /\ hoSucc = 0

\* one call of the breaker, under its mutex: the new fields, the result and
\* the history variables
CBStep(op, b, ret, by) ==
  /\ cb' = b
  /\ cbLast' = CBCall(op, ret, by)
  /\ streak' = CASE op = "failure" -> IF cb.state = StateClosed THEN streak + 1 ELSE 0
                 [] op = "canAttempt" -> IF cb.state = StateClosed THEN streak ELSE 0
                 [] OTHER -> 0
  /\ openedAt' = IF b.state = StateOpen /\ cb.state # StateOpen THEN now ELSE openedAt
  /\ hoSucc' = CASE b.state = StateHalfOpen /\ cb.state # StateHalfOpen -> 0
                 [] op = "success" /\ cb.state = StateHalfOpen -> hoSucc + 1
                 [] cb.state = StateHalfOpen -> hoSucc
                 [] OTHER -> 0

DoCanAttempt ==
  LET r == CanAttempt(cb, now)
  IN  /\ CBStep("canAttempt", r.cb, r.ret, Direct)
      /\ UNCHANGED <<otherVars, now, leaseVars, calls, schedVars>>

DoRecordSuccess ==
  /\ CBStep("success", RecordSuccess(cb, now), TRUE, Direct)
  /\ UNCHANGED <<otherVars, now, leaseVars, calls, schedVars>>

DoRecordFailure ==
  /\ cb.failureCount < MaxFailures
  /\ CBStep("failure", RecordFailure(cb, now), TRUE, Direct)
  /\ UNCHANGED <<otherVars, now, leaseVars, calls, schedVars>>

DoReset ==
  /\ CBStep("reset", Reset(cb, now), TRUE, Direct)
  /\ UNCHANGED <<otherVars, now, leaseVars, calls, schedVars>>

Elapse ==
  /\ now < MaxSeconds
  /\ now' = now + Step
  /\ UNCHANGED <<otherVars, cbVars, leaseVars, calls, schedVars>>

CBNext ==
  \/ DoCanAttempt
  \/ DoRecordSuccess
  \/ DoRecordFailure
  \/ DoReset
  \/ Elapse


\* ------------------------------------------------------------ dispatcher
\* the callers that may be inside Dispatcher.SendAlert at once
Senders == {1, 2}

\* what the webhook sink does with one request: a status code, or no
\* response at all (a transport error)
TransportError == 0
Responses == {200, 404, 503, TransportError}

\* webhook.RetryConfig.MaxAttempts as configured; 0 means unset
ConfiguredMaxAttempts == {0, 1, 2}

DefaultMaxAttempts == 3

\* RetryConfig.SetDefaults (MaxAttempts)
SetDefaults(maxAttempts) ==
  IF maxAttempts = 0 THEN DefaultMaxAttempts ELSE maxAttempts

\* a ShouldRetry without the rate-limiting case
ShouldRetryNo429(attempt, statusCode, err, maxAttempts) ==
  IF attempt >= maxAttempts THEN FALSE
  ELSE IF err THEN TRUE
  ELSE IF statusCode >= 500 /\ statusCode < 600 THEN TRUE
  ELSE IF statusCode >= 400 /\ statusCode < 500 THEN FALSE
  ELSE IF statusCode >= 300 THEN TRUE
  ELSE FALSE

\* RetryStrategy.ShouldRetry(attempt, statusCode, err) with config.MaxAttempts
ShouldRetry(attempt, statusCode, err, maxAttempts) ==
  IF attempt >= maxAttempts THEN FALSE
  ELSE IF err THEN TRUE
  ELSE IF statusCode >= 500 /\ statusCode < 600 THEN TRUE
  ELSE IF statusCode = 429 THEN TRUE
  ELSE IF statusCode >= 400 /\ statusCode < 500 THEN FALSE
  ELSE IF statusCode >= 300 THEN TRUE
  ELSE FALSE

\* a deliverWebhook for which 200 is the only success
deliverWebhookOnly200(r) ==
  IF r = TransportError
  THEN [attempt |-> [StatusCode |-> 0, Error |-> TRUE], err |-> TRUE]
  ELSE IF r # 200
       THEN [attempt |-> [StatusCode |-> r, Error |-> TRUE], err |-> TRUE]
       ELSE [attempt |-> [StatusCode |-> r, Error |-> FALSE], err |-> FALSE]

\* Dispatcher.deliverWebhook against a sink that answers r: the AlertAttempt
\* and the error returned with it (a transport error, or any status outside
\* 2xx)
deliverWebhook(r) ==
  IF r = TransportError
  THEN [attempt |-> [StatusCode |-> 0, Error |-> TRUE], err |-> TRUE]
  ELSE IF r < 200 \/ r >= 300
       THEN [attempt |-> [StatusCode |-> r, Error |-> TRUE], err |-> TRUE]
       ELSE [attempt |-> [StatusCode |-> r, Error |-> FALSE], err |-> FALSE]

\* the errors SendAlert returns
ErrCircuitOpen == "circuit breaker is open"
ErrDeliveryFailed == "webhook delivery failed"
ErrContext == "context canceled"

\* model.AlertLog as SendAlert creates it, its ID from primitive.NewObjectID
NewAlertLog == [ID |-> "oid", Attempts |-> <<>>, FinalStatus |-> "retrying"]

\* the early return that leaves FinalStatus as created
CircuitOpenLogRetrying(log) == log

\* SendAlert's early return when the breaker forbids the attempt
CircuitOpenLog(log) == [log EXCEPT !.FinalStatus = "failed"]

\* a caller outside SendAlert; sent counts the requests its call has made and
\* outcomes keeps what the call has recorded on the breaker
Idle ==
  [pc |-> "idle", maxAttempts |-> 0, attempt |-> 0, log |-> NewAlertLog,
   err |-> None, sent |-> 0, outcomes |-> <<>>]

DispatchInit == calls = [i \in Senders |-> Idle]

\* a SendAlert that asks a breaker of its own, fresh for every call
SendAlertStartOwnBreaker(i, rc) ==
  /\ calls[i].pc = "idle"
  /\ LET r == CanAttempt(NewCircuitBreaker(now), now)
     IN  /\ CBStep("canAttempt", cb, r.ret, i)
         /\ calls' = [calls EXCEPT ![i] =
              [Idle EXCEPT !.pc = "attempt", !.maxAttempts = SetDefaults(rc),
                           !.attempt = 1]]
  /\ UNCHANGED <<otherVars, now, leaseVars, schedVars>>

\* SendAlert up to the breaker check: create the AlertLog, ask CanAttempt;
\* when it forbids, return the failed log and the circuit-open error.
SendAlertStart(i, rc) ==
  /\ calls[i].pc = "idle"
  /\ LET r == CanAttempt(cb, now)
     IN  /\ CBStep("canAttempt", r.cb, r.ret, i)
         /\ calls' = [calls EXCEPT ![i] =
              IF r.ret
              THEN [Idle EXCEPT !.pc = "attempt",
                                !.maxAttempts = SetDefaults(rc),
                                !.attempt = 1]
              ELSE [Idle EXCEPT !.pc = "returned",
                                !.maxAttempts = SetDefaults(rc),
                                !.log = CircuitOpenLog(NewAlertLog),
                                !.err = ErrCircuitOpen]]
  /\ UNCHANGED <<otherVars, now, leaseVars, schedVars>>

\* a retry loop that records a failure on the breaker at every failed attempt
DeliverAttemptRecordsEachFailure(i, r) ==
  /\ calls[i].pc = "attempt"
  /\ LET c   == calls[i]
         d   == deliverWebhook(r)
         log == [c.log EXCEPT !.Attempts = Append(@, d.attempt)]
         c1  == [c EXCEPT !.log = log, !.sent = @ + 1]
         delivered == ~d.err /\ d.attempt.StatusCode >= 200 /\ d.attempt.StatusCode < 300
         retry == ShouldRetry(c.attempt, d.attempt.StatusCode, d.err, c.maxAttempts)
     IN  IF delivered
         THEN /\ calls' = [calls EXCEPT ![i] =
                   [c1 EXCEPT !.pc = "returned", !.log.FinalStatus = "delivered",
                              !.outcomes = Append(@, "success")]]
              /\ CBStep("success", RecordSuccess(cb, now), TRUE, i)
         ELSE IF ~retry \/ c.attempt + 1 > c.maxAttempts
              THEN /\ cb.failureCount < MaxFailures
                   /\ calls' = [calls EXCEPT ![i] =
                        [c1 EXCEPT !.pc = "returned", !.log.FinalStatus = "failed",
                                   !.err = ErrDeliveryFailed,
                                   !.outcomes = Append(@, "failure")]]
                   /\ CBStep("failure", RecordFailure(cb, now), TRUE, i)
              ELSE /\ cb.failureCount < MaxFailures
                   /\ calls' = [calls EXCEPT ![i] =
                        [c1 EXCEPT !.pc = "sleep", !.outcomes = Append(@, "failure")]]
                   /\ CBStep("failure", RecordFailure(cb, now), TRUE, i)
  /\ UNCHANGED <<otherVars, now, leaseVars, schedVars>>

\* one pass of the retry loop: deliverWebhook, append the attempt, then
\* return delivered (RecordSuccess), return failed (RecordFailure) when
\* ShouldRetry refuses or the loop is exhausted, or go to sleep.
DeliverAttempt(i, r) ==
  /\ calls[i].pc = "attempt"
  /\ LET c   == calls[i]
         d   == deliverWebhook(r)
         log == [c.log EXCEPT !.Attempts = Append(@, d.attempt)]
         c1  == [c EXCEPT !.log = log, !.sent = @ + 1]
         delivered == ~d.err /\ d.attempt.StatusCode >= 200 /\ d.attempt.StatusCode < 300
         retry == ShouldRetry(c.attempt, d.attempt.StatusCode, d.err, c.maxAttempts)
     IN  IF delivered
         THEN /\ calls' = [calls EXCEPT ![i] =
                   [c1 EXCEPT !.pc = "returned", !.log.FinalStatus = "delivered",
                              !.outcomes = Append(@, "success")]]
              /\ CBStep("success", RecordSuccess(cb, now), TRUE, i)
         ELSE IF ~retry \/ c.attempt + 1 > c.maxAttempts
              THEN /\ cb.failureCount < MaxFailures
                   /\ calls' = [calls EXCEPT ![i] =
                        [c1 EXCEPT !.pc = "returned", !.log.FinalStatus = "failed",
                                   !.err = ErrDeliveryFailed,
                                   !.outcomes = Append(@, "failure")]]
                   /\ CBStep("failure", RecordFailure(cb, now), TRUE, i)
              ELSE /\ calls' = [calls EXCEPT ![i] = [c1 EXCEPT !.pc = "sleep"]]
                   /\ cbLast' = NoCBCall
                   /\ UNCHANGED <<cb, streak, openedAt, hoSucc>>
  /\ UNCHANGED <<otherVars, now, leaseVars, schedVars>>

\* the backoff timer fires: the next pass of the loop
BackoffElapsed(i) ==
  /\ calls[i].pc = "sleep"
  /\ calls' = [calls EXCEPT ![i].pc = "attempt", ![i].attempt = @ + 1]
  /\ cbLast' = NoCBCall
  /\ UNCHANGED <<otherVars, now, leaseVars, schedVars, cb, streak, openedAt, hoSucc>>

\* a cancelled backoff that returns the log as it stands
BackoffCancelledRetrying(i) ==
  /\ calls[i].pc = "sleep"
  /\ calls' = [calls EXCEPT ![i].pc = "returned",
                            ![i].err = ErrContext]
  /\ cbLast' = NoCBCall
  /\ UNCHANGED <<otherVars, now, leaseVars, schedVars, cb, streak, openedAt, hoSucc>>

\* a cancellation that is noticed only after one more delivery
BackoffCancelledLate(i) ==
  /\ calls[i].pc = "sleep"
  /\ calls' = [calls EXCEPT ![i].pc = "returned",
                            ![i].log.Attempts = Append(@, deliverWebhook(503).attempt),
                            ![i].sent = @ + 1,
                            ![i].log.FinalStatus = "failed",
                            ![i].err = ErrContext]
  /\ cbLast' = NoCBCall
  /\ UNCHANGED <<otherVars, now, leaseVars, schedVars, cb, streak, openedAt, hoSucc>>

\* ctx.Done() during the backoff: return failed with ctx.Err()
BackoffCancelled(i) ==
  /\ calls[i].pc = "sleep"
  /\ calls' = [calls EXCEPT ![i].pc = "returned",
                            ![i].log.FinalStatus = "failed",
                            ![i].err = ErrContext]
  /\ cbLast' = NoCBCall
  /\ UNCHANGED <<otherVars, now, leaseVars, schedVars, cb, streak, openedAt, hoSucc>>

\* the caller has taken the result; it may call again
SendAlertReturned(i) ==
  /\ calls[i].pc = "returned"
  /\ calls' = [calls EXCEPT ![i] = Idle]
  /\ cbLast' = NoCBCall
  /\ UNCHANGED <<otherVars, now, leaseVars, schedVars, cb, streak, openedAt, hoSucc>>

\* openTimeout passes (the dispatcher's clock stops at MaxDispatchSeconds)
MaxDispatchSeconds == 60

ElapseTimeout ==
  /\ now < MaxDispatchSeconds
  /\ now' = now + OpenTimeout
  /\ UNCHANGED <<otherVars, cbVars, leaseVars, calls, schedVars>>

DispatchNext ==
  \/ \E i \in Senders, rc \in ConfiguredMaxAttempts : SendAlertStart(i, rc)
  \/ \E i \in Senders, r \in Responses : DeliverAttempt(i, r)
  \/ \E i \in Senders : BackoffElapsed(i)
  \/ \E i \in Senders : BackoffCancelled(i)
  \/ \E i \in Senders : SendAlertReturned(i)
  \/ ElapseTimeout


\* two webhook URLs behind the one Dispatcher: the alerts of caller 1 go to a
\* sink that is down, those of caller 2 to a sink that always answers 200
FailingSink == {503, 404, TransportError}

SharedNext ==
  \/ \E i \in Senders, rc \in ConfiguredMaxAttempts : SendAlertStart(i, rc)
  \/ \E r \in FailingSink : DeliverAttempt(1, r)
  \/ DeliverAttempt(2, 200)
  \/ \E i \in Senders : BackoffElapsed(i)
  \/ \E i \in Senders : SendAlertReturned(i)
  \/ ElapseTimeout

\* one caller at a time, against a sink that answers with a status of any
\* class
OneSender == {1}
SinkResponses == {200, 204, 301, 404, 429, 500, 503, TransportError}

SendAlertNext ==
  \/ \E i \in OneSender, rc \in ConfiguredMaxAttempts : SendAlertStart(i, rc)
  \/ \E i \in OneSender, r \in SinkResponses : DeliverAttempt(i, r)
  \/ \E i \in OneSender : BackoffElapsed(i)
  \/ \E i \in OneSender : BackoffCancelled(i)
  \/ \E i \in OneSender : SendAlertReturned(i)
  \/ ElapseTimeout

\* ---------------------------------------------------------- retry strategy
\* RetryConfig.Multiplier is a float64: a fraction num/den whose denominator
\* is a power of two, which float64 holds exactly; 0 means unset
Multipliers ==
  {[num |-> 0, den |-> 1], [num |-> 1, den |-> 2], [num |-> 1, den |-> 1],
   [num |-> 3, den |-> 2], [num |-> 2, den |-> 1]}

\* RetryConfig.InitialDelayMs and MaxDelayMs as configured; 0 means unset and
\* no value is rejected
InitialDelays == {-1000, 0, 1, 1000}
MaxDelays == {0, 3000}

DefaultInitialDelayMs == 1000
DefaultMaxDelayMs == 30000
DefaultMultiplier == [num |-> 2, den |-> 1]

RetryConfigs ==
  [MaxAttempts : ConfiguredMaxAttempts, InitialDelayMs : InitialDelays,
   MaxDelayMs : MaxDelays, Multiplier : Multipliers]

\* the zero value of model.RetryConfig
ZeroRetryConfig ==
  [MaxAttempts |-> 0, InitialDelayMs |-> 0, MaxDelayMs |-> 0,
   Multiplier |-> [num |-> 0, den |-> 1]]

\* NewRetryStrategy: the config after RetryConfig.SetDefaults
NewRetryStrategy(config) ==
  [MaxAttempts    |-> SetDefaults(config.MaxAttempts),
   InitialDelayMs |-> IF config.InitialDelayMs = 0 THEN DefaultInitialDelayMs
                      ELSE config.InitialDelayMs,
   MaxDelayMs     |-> IF config.MaxDelayMs = 0 THEN DefaultMaxDelayMs
                      ELSE config.MaxDelayMs,
   Multiplier     |-> IF config.Multiplier.num = 0 THEN DefaultMultiplier
                      ELSE config.Multiplier]

\* math.Pow for a whole exponent >= 0
RECURSIVE Pow(_, _)
Pow(b, e) == IF e = 0 THEN 1 ELSE b * Pow(b, e - 1)

\* time.Duration(x) of the float64 x = a/b (b > 0): truncation toward zero
Trunc(a, b) == IF a >= 0 THEN a \div b ELSE -((-a) \div b)

\* the delay of the formula in CalculateDelay's comment: multiplier ^ attempt
CalculateDelayAttemptExponent(strategy, attempt) ==
  IF attempt <= 0 THEN 0
  ELSE LET n == strategy.InitialDelayMs * Pow(strategy.Multiplier.num, attempt)
           d == Pow(strategy.Multiplier.den, attempt)
       IN  IF n > strategy.MaxDelayMs * d THEN strategy.MaxDelayMs
           ELSE Trunc(n, d)

\* RetryStrategy.CalculateDelay(attempt), in milliseconds
CalculateDelay(strategy, attempt) ==
  IF attempt <= 0 THEN 0
  ELSE LET n == strategy.InitialDelayMs * Pow(strategy.Multiplier.num, attempt - 1)
           d == Pow(strategy.Multiplier.den, attempt - 1)
       IN  IF n > strategy.MaxDelayMs * d THEN strategy.MaxDelayMs
           ELSE Trunc(n, d)

\* RetryStrategy.GetMaxAttempts
GetMaxAttempts(strategy) == strategy.MaxAttempts

\* the attempt numbers and status codes the strategy is asked about
MaxRetryAttempt == 6
RetryAttempts == 0..MaxRetryAttempt
StatusCodes == {0, 100, 200, 204, 299, 300, 301, 399, 400, 404, 428, 429, 430,
                499, 500, 503, 599, 600}

RetryCall(op, attempt, statusCode, err, retry, delay) ==
  [op |-> op, attempt |-> attempt, statusCode |-> statusCode, err |-> err,
   retry |-> retry, delay |-> delay]

NoRetryCall == RetryCall(None, 0, 0, FALSE, FALSE, 0)

RetryInit ==
  /\ rs = ZeroRetryConfig
  /\ fn = NoRetryCall

DoShouldRetry(attempt, statusCode, err) ==
  /\ fn' = RetryCall("shouldRetry", attempt, statusCode, err,
                     ShouldRetry(attempt, statusCode, err,
                                 GetMaxAttempts(NewRetryStrategy(rs))), 0)
  /\ UNCHANGED <<poolVars, asyncVars, rs, now, leaseVars, cbVars, calls, schedVars, execVars>>

DoCalculateDelay(attempt) ==
  /\ fn' = RetryCall("delay", attempt, 0, FALSE, FALSE,
                     CalculateDelay(NewRetryStrategy(rs), attempt))
  /\ UNCHANGED <<poolVars, asyncVars, rs, now, leaseVars, cbVars, calls, schedVars, execVars>>

RetryStrategyNext ==
  \/ \E a \in RetryAttempts, st \in StatusCodes, e \in BOOLEAN :
       DoShouldRetry(a, st, e)
  \/ \E a \in RetryAttempts : DoCalculateDelay(a)


\* ---------------------------------------------------------------- executor
\* the rule lists of a config: HealthCheckConfig.Validate wants at least one
\* rule and a name on each, and nothing more of the names
MaxRules == 2
RuleNames == {"a", "b"}
Rule == [Name : RuleNames, AlertOnMatch : BOOLEAN]
RuleLists == UNION {[1..n -> Rule] : n \in 1..MaxRules}

\* what EvaluateRule finds for one rule in a response body
Verdicts == {"matched", "unmatched", "error"}

\* what the target does with the request: a status code, or no response
TargetResponses == {200, 503, TransportError}

\* the response body of the target: JSON or not
Bodies == {"json", "not-json"}

ErrParse == "Failed to parse JSON response"
ErrEvaluation == "evaluation failed"

\* an EvaluateRule that keeps the operator's answer next to its error
EvaluateRuleKeepsMatch(rule, k, body, v) ==
  IF body = "not-json"
  THEN [RuleName |-> rule.Name, Matched |-> FALSE, Error |-> ErrParse, idx |-> k]
  ELSE [RuleName |-> rule.Name, Matched |-> v \in {"matched", "error"},
        Error |-> IF v = "error" THEN ErrEvaluation ELSE "", idx |-> k]

\* Evaluator.EvaluateRule on the k-th rule: Matched starts false and every
\* error (parse, JSONPath, operator) returns before it is set; v is what
\* the expression and the operator find in a JSON body
EvaluateRule(rule, k, body, v) ==
  IF body = "not-json"
  THEN [RuleName |-> rule.Name, Matched |-> FALSE, Error |-> ErrParse, idx |-> k]
  ELSE IF v = "error"
       THEN [RuleName |-> rule.Name, Matched |-> FALSE, Error |-> ErrEvaluation,
             idx |-> k]
       ELSE [RuleName |-> rule.Name, Matched |-> v = "matched", Error |-> "",
             idx |-> k]

\* Evaluator.EvaluateRules: one RuleEvaluation per rule, in the rules' order
\* (idx is the position, kept to tell equally named rules apart)
EvaluateRules(rules, body, verdict) ==
  [k \in 1..Len(rules) |-> EvaluateRule(rules[k], k, body, verdict[k])]

\* the alertMap of GetMatchedRulesForAlert: a later rule overwrites an
\* earlier one of the same name
AlertMap(rules) ==
  [nm \in {rules[k].Name : k \in 1..Len(rules)} |->
     LET k == CHOOSE j \in 1..Len(rules) :
                /\ rules[j].Name = nm
                /\ \A i \in (j + 1)..Len(rules) : rules[i].Name # nm
     IN  rules[k].AlertOnMatch]

\* a collection of the matched alert rules last rule first
GetMatchedRulesForAlertReversed(evaluations, rules) ==
  LET m == SelectSeq(evaluations, LAMBDA e : e.Matched /\ AlertMap(rules)[e.RuleName])
  IN  [k \in 1..Len(m) |-> m[Len(m) + 1 - k]]

\* Evaluator.GetMatchedRulesForAlert
GetMatchedRulesForAlert(evaluations, rules) ==
  SelectSeq(evaluations, LAMBDA e : e.Matched /\ AlertMap(rules)[e.RuleName])

\* a test that looks at the error only
TargetOKAnyStatus(r) == r # TransportError

\* Execute's test before it evaluates rules: no error and a 2xx status
TargetOK(r) == r # TransportError /\ r >= 200 /\ r < 300

\* a classification without the partial status
ExecutionStatusNoPartial(r, evaluations) ==
  IF r = TransportError THEN "failed" ELSE "success"

\* the status Execute gives the execution
ExecutionStatus(r, evaluations) ==
  IF r = TransportError THEN "failed"
  ELSE IF \E k \in 1..Len(evaluations) : evaluations[k].Error # "" THEN "partial"
  ELSE "success"

ConfigID == "c1"
ErrDisabled == "health check is disabled"
ErrFetch == "failed to fetch config"
ErrStore == "failed to create execution history"

\* no Execute call yet
NoExecution ==
  [pc |-> "idle", cancelled |-> FALSE, rules |-> <<>>, response |-> TransportError,
   evaluations |-> <<>>, matchedAlerts |-> <<>>, alertsTriggered |-> <<>>,
   alerted |-> {}, alertIDs |-> 0, status |-> None, err |-> None,
   saveErr |-> None]

ExecInit ==
  /\ exec = NoExecution
  /\ alertLogs = {}

\* an Execute that writes an ExecutionHistory for a refused config
ExecuteStartRecordsRefusal(rules, enabled) ==
  /\ exec.pc = "idle"
  /\ exec' = IF enabled
             THEN [NoExecution EXCEPT !.pc = "target", !.rules = rules]
             ELSE [NoExecution EXCEPT !.pc = "returned", !.rules = rules,
                                      !.err = ErrDisabled]
  /\ history' = IF enabled THEN history
                ELSE Append(history, [correlation_id |-> "x1", config_id |-> ConfigID,
                                      status |-> "failed", rules_evaluation |-> <<>>,
                                      alerts_triggered |-> <<>>])
  /\ UNCHANGED <<poolVars, asyncVars, alertLogs, now, leaseVars, cbVars, calls, retryVars,
                 cfgs, sched, workers, spawned, writebacks>>

\* Execute up to the target call: fetch the config, refuse a disabled one
ExecuteStart(rules, enabled) ==
  /\ exec.pc = "idle"
  /\ exec' = IF enabled
             THEN [NoExecution EXCEPT !.pc = "target", !.rules = rules]
             ELSE [NoExecution EXCEPT !.pc = "returned", !.rules = rules,
                                      !.err = ErrDisabled]
  /\ UNCHANGED <<poolVars, asyncVars, alertLogs, now, leaseVars, cbVars, calls, schedVars, retryVars>>

\* Execute on an id that is no ObjectID or that GetByID does not find
ExecuteMissing ==
  /\ exec.pc = "idle"
  /\ exec' = [NoExecution EXCEPT !.pc = "returned", !.err = ErrFetch]
  /\ UNCHANGED <<poolVars, asyncVars, alertLogs, now, leaseVars, cbVars, calls, schedVars, retryVars>>

\* the caller's context is cancelled while Execute runs
CancelContext ==
  /\ exec.pc \in {"target", "alert", "save"}
  /\ ~exec.cancelled
  /\ exec' = [exec EXCEPT !.cancelled = TRUE]
  /\ UNCHANGED <<poolVars, asyncVars, alertLogs, now, leaseVars, cbVars, calls, schedVars, retryVars>>

\* callTargetAPI returns; on a 2xx answer the rules are evaluated and the
\* matched alert rules collected
CallTargetAPI(r, body, verdict) ==
  /\ exec.pc = "target"
  /\ exec.cancelled => r = TransportError
  /\ LET evals   == IF TargetOK(r) THEN EvaluateRules(exec.rules, body, verdict)
                    ELSE <<>>
         matched == IF TargetOK(r) THEN GetMatchedRulesForAlert(evals, exec.rules)
                    ELSE <<>>
     IN  exec' = [exec EXCEPT !.response = r, !.evaluations = evals,
                              !.matchedAlerts = matched,
                              !.pc = IF matched = <<>> THEN "save" ELSE "alert"]
  /\ UNCHANGED <<poolVars, asyncVars, alertLogs, now, leaseVars, cbVars, calls, schedVars, retryVars>>

\* triggerAlert after SendAlert has returned: stamp and save the AlertLog
\* with the caller's context; Execute appends an AlertTriggered when
\* triggerAlert returned no error
TriggerAlertReturn(i) ==
  /\ exec.pc = "alert"
  /\ calls[i].pc = "returned"
  /\ LET id  == exec.alertIDs + 1
         ev  == Head(exec.matchedAlerts)
         log == [ID |-> id, ConfigID |-> ConfigID,
                 FinalStatus |-> calls[i].log.FinalStatus,
                 Attempts |-> Len(calls[i].log.Attempts)]
     IN  /\ alertLogs' = IF exec.cancelled THEN alertLogs ELSE alertLogs \cup {log}
         /\ exec' = [exec EXCEPT
               !.alertIDs = id,
               !.alerted = @ \cup {[idx |-> ev.idx, id |-> id, err |-> calls[i].err]},
               !.alertsTriggered =
                  IF calls[i].err = None
                  THEN Append(@, [AlertID |-> id, TriggeredByRule |-> ev.RuleName])
                  ELSE @,
               !.matchedAlerts = Tail(@),
               !.pc = IF Tail(exec.matchedAlerts) = <<>> THEN "save" ELSE "alert"]
  /\ calls' = [calls EXCEPT ![i] = Idle]
  /\ cbLast' = NoCBCall
  /\ UNCHANGED <<poolVars, asyncVars, now, leaseVars, schedVars, retryVars, cb, streak, openedAt, hoSucc>>

\* classify, build the ExecutionHistory, save it with the caller's context
\* (a failure to save is only logged) and return it; stored says whether
\* InsertOne succeeded: it fails on a cancelled context, on a correlation_id
\* already in the collection, or when the store is down
SaveAndReturn(stored) ==
  /\ exec.pc = "save"
  /\ exec.cancelled => ~stored
  /\ LET status == ExecutionStatus(exec.response, exec.evaluations)
         execution == [correlation_id |-> "x1", config_id |-> ConfigID,
                       status |-> status,
                       rules_evaluation |-> exec.evaluations,
                       alerts_triggered |-> exec.alertsTriggered]
     IN  /\ history' = IF stored THEN Append(history, execution) ELSE history
         /\ exec' = [exec EXCEPT !.pc = "returned", !.status = status,
                                 !.saveErr = IF stored THEN None
                                             ELSE IF exec.cancelled THEN ErrContext
                                             ELSE ErrStore]
  /\ UNCHANGED <<poolVars, asyncVars, alertLogs, now, leaseVars, cbVars, calls, retryVars,
                 cfgs, sched, workers, spawned, writebacks>>

\* the webhook's answers to the alerts of the execution
WebhookResponses == {200, 503, TransportError}

ExecNext ==
  \/ \E rules \in RuleLists, enabled \in BOOLEAN : ExecuteStart(rules, enabled)
  \/ ExecuteMissing
  \/ CancelContext
  \/ \E r \in TargetResponses, body \in Bodies,
        verdict \in [1..Len(exec.rules) -> Verdicts] :
       CallTargetAPI(r, body, verdict)
  \/ \E i \in OneSender, rc \in ConfiguredMaxAttempts :
       exec.pc = "alert" /\ SendAlertStart(i, rc)
  \/ \E i \in OneSender, r \in WebhookResponses :
       /\ exec.pc = "alert"
       /\ exec.cancelled => r = TransportError
       /\ DeliverAttempt(i, r)
  \/ \E i \in OneSender : exec.pc = "alert" /\ BackoffElapsed(i)
  \/ \E i \in OneSender : exec.pc = "alert" /\ exec.cancelled /\ BackoffCancelled(i)
  \/ \E i \in OneSender : TriggerAlertReturn(i)
  \/ \E stored \in BOOLEAN : SaveAndReturn(stored)
  \/ DoRecordFailure

\* -------------------------------------------------------------- scheduler
\* cfg.SchedulerLockTTL and cfg.SchedulerConcurrency, in the model's units
LockTTL == 2
Concurrency == 1
\* every config carries the same cron expression: every Period time units
Period == 2
\* the scheduler's clock stops at MaxSchedTime; at most MaxSpawn
\* executeHealthCheck goroutines are started in one run of the model
MaxSchedTime == 3
MaxSpawn == 3

\* the health checks in the store while the schedulers run
SchedConfigs == {"c1"}

\* a schedule whose Next(t) is the latest activation up to t
CronNextNotLater(t) == (t \div Period) * Period

\* cron Schedule.Next(t): the first activation after t
CronNext(t) == ((t \div Period) + 1) * Period

\* HealthCheckRepository.FindScheduledChecks(now): the configs due, in the
\* collection's order, as the documents read at that moment
IsDue(c, t) ==
  /\ cfgs[c].enabled
  /\ cfgs[c].schedule_enabled
  /\ cfgs[c].next_scheduled_run <= t

\* a config document as a tick read it
Snapshot(c) == [ID |-> c, NextScheduledRun |-> cfgs[c].next_scheduled_run]

RECURSIVE InOrder(_)
InOrder(S) ==
  IF S = {} THEN <<>>
  ELSE LET c == CHOOSE x \in S : \A y \in S : x = "c1" \/ y # "c1"
       IN  <<Snapshot(c)>> \o InOrder(S \ {c})

FindScheduledChecks(t) == InOrder({c \in SchedConfigs : IsDue(c, t)})

\* the workers of pod p that hold a semaphore slot
Slots(p) == {w \in workers : w.pod = p /\ w.pc \in {"exec", "writeback", "release"}}

SchedInit ==
  /\ cfgs = [c \in SchedConfigs |->
       [enabled |-> TRUE, schedule_enabled |-> TRUE,
        last_scheduled_run |-> ZeroTime, next_scheduled_run |-> 0]]
  /\ history = <<>>
  /\ sched = [p \in Pods |-> [pc |-> "idle", due |-> <<>>, stopping |-> FALSE,
                             tickBuffered |-> FALSE, stopped |-> FALSE,
                             atStop |-> 0]]
  /\ workers = {}
  /\ spawned = 0
  /\ writebacks = {}

\* Scheduler.tick up to its loop: CleanExpiredLocks, then
\* FindScheduledChecks(now).  The run loop takes a tick when the ticker has
\* fired; after the stop signal only a tick already waiting in the ticker's
\* channel can still be taken.
Tick(p) ==
  /\ sched[p].pc = "idle"
  /\ ~sched[p].stopping \/ sched[p].tickBuffered
  /\ locks' = CleanExpiredLocks(locks, now)
  /\ LET due == FindScheduledChecks(now)
     IN  sched' = [sched EXCEPT ![p].tickBuffered = FALSE,
                                ![p].due = due,
                                ![p].pc = IF due = <<>> THEN "idle" ELSE "loop"]
  /\ UNCHANGED <<otherVars, now, last, cbVars, calls, cfgs, history, workers, spawned, writebacks>>

\* one pass of tick's loop over the due configs: AcquireLock, and on
\* success start executeHealthCheck for the config as it was read
TickAcquire(p) ==
  /\ sched[p].pc = "loop"
  /\ spawned < MaxSpawn
  /\ LET config == Head(sched[p].due)
         r      == AcquireLock(locks, config.ID, p, now, LockTTL)
         rest   == Tail(sched[p].due)
     IN  /\ locks' = r.locks
         /\ sched' = [sched EXCEPT ![p].due = rest,
                                   ![p].pc = IF rest = <<>> THEN "idle" ELSE "loop"]
         /\ IF r.acquired
            THEN /\ workers' = workers \cup
                      {[id |-> spawned + 1, pod |-> p, config |-> config, pc |-> "wait"]}
                 /\ spawned' = spawned + 1
            ELSE UNCHANGED <<workers, spawned>>
  /\ UNCHANGED <<otherVars, now, last, cbVars, calls, cfgs, history, writebacks>>

\* an executeHealthCheck that takes a slot whether or not one is free
WorkerReserveUnbounded(w) ==
  /\ w.pc = "wait"
  /\ workers' = (workers \ {w}) \cup {[w EXCEPT !.pc = "exec"]}
  /\ UNCHANGED <<otherVars, now, leaseVars, cbVars, calls, cfgs, history, sched, spawned, writebacks>>

\* executeHealthCheck's select, semaphore case: a slot is free
WorkerReserve(w) ==
  /\ w.pc = "wait"
  /\ Cardinality(Slots(w.pod)) < Concurrency
  /\ workers' = (workers \ {w}) \cup {[w EXCEPT !.pc = "exec"]}
  /\ UNCHANGED <<otherVars, now, leaseVars, cbVars, calls, cfgs, history, sched, spawned, writebacks>>

\* an executeHealthCheck that returns on the stop signal with its lock kept
WorkerStoppedKeepsLock(w) ==
  /\ w.pc = "wait"
  /\ sched[w.pod].stopping
  /\ workers' = workers \ {w}
  /\ UNCHANGED <<otherVars, now, leaseVars, cbVars, calls, cfgs, history, sched, spawned, writebacks>>

\* executeHealthCheck's select, stopChan case: release the lock and return
WorkerStopped(w) ==
  /\ w.pc = "wait"
  /\ sched[w.pod].stopping
  /\ locks' = ReleaseLock(locks, w.config.ID, w.pod)
  /\ workers' = workers \ {w}
  /\ UNCHANGED <<otherVars, now, last, cbVars, calls, cfgs, history, sched, spawned, writebacks>>

\* Executor.Execute for the config: it reads the config by id, refuses a
\* disabled one, and otherwise ends by inserting the ExecutionHistory under
\* the fresh correlation id; err says that Execute returned an error (the
\* config could not be fetched), which the worker only logs
WorkerExecute(w, err) ==
  /\ w.pc = "exec"
  /\ history' = IF cfgs[w.config.ID].enabled /\ ~err
                THEN Append(history,
                       [correlation_id |-> w.id, config_id |-> w.config.ID,
                        pod |-> w.pod, scheduled |-> w.config.NextScheduledRun])
                ELSE history
  /\ workers' = (workers \ {w}) \cup {[w EXCEPT !.pc = "writeback"]}
  /\ UNCHANGED <<otherVars, now, leaseVars, cbVars, calls, cfgs, sched, spawned, writebacks>>

\* updateNextScheduledRun: UpdateScheduledRun(id, now, schedule.Next(now));
\* ok says whether the update reached the store (an error is only logged)
WorkerWriteback(w, ok) ==
  /\ w.pc = "writeback"
  /\ IF ok
       THEN /\ cfgs' = [cfgs EXCEPT ![w.config.ID].last_scheduled_run = now,
                                    ![w.config.ID].next_scheduled_run = CronNext(now)]
            /\ writebacks' = writebacks \cup
                 {[worker |-> w.id, config_id |-> w.config.ID,
                   scheduled |-> w.config.NextScheduledRun, at |-> now]}
       ELSE UNCHANGED <<cfgs, writebacks>>
  /\ workers' = (workers \ {w}) \cup {[w EXCEPT !.pc = "release"]}
  /\ UNCHANGED <<otherVars, now, leaseVars, cbVars, calls, history, sched, spawned>>

\* releaseLock, then the deferred semaphore release and wg.Done
WorkerRelease(w) ==
  /\ w.pc = "release"
  /\ locks' = ReleaseLock(locks, w.config.ID, w.pod)
  /\ workers' = workers \ {w}
  /\ UNCHANGED <<otherVars, now, last, cbVars, calls, cfgs, history, sched, spawned, writebacks>>

\* Scheduler.Stop up to its wait: close(stopChan), ticker.Stop(); buffered
\* says whether a tick was already waiting in the ticker's channel; atStop
\* keeps how many workers had been started by then
StopSignal(p, buffered) ==
  /\ ~sched[p].stopping
  /\ sched' = [sched EXCEPT ![p].stopping = TRUE, ![p].tickBuffered = buffered,
                            ![p].atStop = spawned]
  /\ UNCHANGED <<otherVars, now, leaseVars, cbVars, calls, cfgs, history, workers, spawned, writebacks>>

\* the run loop takes the stop signal and returns
RunExit(p) ==
  /\ sched[p].pc = "idle"
  /\ sched[p].stopping
  /\ sched' = [sched EXCEPT ![p].pc = "exited"]
  /\ UNCHANGED <<otherVars, now, leaseVars, cbVars, calls, cfgs, history, workers, spawned, writebacks>>

\* Scheduler.Stop from its wait on: the WaitGroup is done (the run loop and
\* every worker returned) or the caller's deadline passed (timedOut); then
\* ReleaseAllLocks
StopFinish(p, timedOut) ==
  /\ sched[p].stopping
  /\ ~sched[p].stopped
  /\ \/ timedOut
     \/ sched[p].pc = "exited" /\ \A w \in workers : w.pod # p
  /\ locks' = ReleaseAllLocks(locks, p)
  /\ sched' = [sched EXCEPT ![p].stopped = TRUE]
  /\ UNCHANGED <<otherVars, now, last, cbVars, calls, cfgs, history, workers, spawned, writebacks>>

\* idx_expires_at_ttl at work under the schedulers
SchedTTLMonitor ==
  /\ \E l \in locks :
       /\ TTLExpired(l, now)
       /\ locks' = locks \ {l}
  /\ UNCHANGED <<otherVars, now, last, cbVars, calls, schedVars>>

SchedClock ==
  /\ now < MaxSchedTime
  /\ now' = now + 1
  /\ UNCHANGED <<otherVars, leaseVars, cbVars, calls, schedVars>>

\* the schedulers at work, no pod shutting down
SchedNext ==
  \/ \E p \in Pods : Tick(p)
  \/ \E p \in Pods : TickAcquire(p)
  \/ \E w \in workers : WorkerReserve(w)
  \/ \E w \in workers : WorkerExecute(w, FALSE)
  \/ \E w \in workers : WorkerWriteback(w, TRUE)
  \/ \E w \in workers : WorkerRelease(w)
  \/ SchedTTLMonitor
  \/ SchedClock

\* the pods that receive SIGTERM while the others go on
StoppingPods == {"p1"}

\* the schedulers at work and shutting down
ShutdownNext ==
  \/ \E p \in Pods : Tick(p)
  \/ \E p \in Pods : TickAcquire(p)
  \/ \E w \in workers : WorkerReserve(w)
  \/ \E w \in workers : WorkerStopped(w)
  \/ \E w \in workers : WorkerExecute(w, FALSE)
  \/ \E w \in workers : WorkerWriteback(w, TRUE)
  \/ \E w \in workers : WorkerRelease(w)
  \/ \E p \in StoppingPods, buffered \in BOOLEAN : StopSignal(p, buffered)
  \/ \E p \in StoppingPods : RunExit(p)
  \/ \E p \in StoppingPods, timedOut \in BOOLEAN : StopFinish(p, timedOut)
  \/ SchedTTLMonitor
  \/ SchedClock

\* --------------------------------------------------- the repository alone
Call(op, c, p, ttl, ok, err) ==
  [op |-> op, config_id |-> c, pod |-> p, ttl |-> ttl, ok |-> ok, err |-> err,
   at |-> now, pre |-> locks]

NoCall == [op |-> None, config_id |-> None, pod |-> None, ttl |-> 0,
           ok |-> FALSE, err |-> FALSE, at |-> 0, pre |-> {}]

LeaseInit ==
  /\ locks = {}
  /\ last = NoCall

DoAcquire(c, p, ttl) ==
  LET r == AcquireLock(locks, c, p, now, ttl)
  IN  /\ locks' = r.locks
      /\ last' = Call("acquire", c, p, ttl, r.acquired, r.err)
      /\ UNCHANGED <<otherVars, now, cbVars, calls, schedVars>>

DoRelease(c, p) ==
  /\ locks' = ReleaseLock(locks, c, p)
  /\ last' = Call("release", c, p, 0, TRUE, FALSE)
  /\ UNCHANGED <<otherVars, now, cbVars, calls, schedVars>>

DoReleaseAll(p) ==
  /\ locks' = ReleaseAllLocks(locks, p)
  /\ last' = Call("releaseAll", None, p, 0, TRUE, FALSE)
  /\ UNCHANGED <<otherVars, now, cbVars, calls, schedVars>>

DoExtend(c, p, ttl) ==
  LET r == ExtendLock(locks, c, p, now, ttl)
  IN  /\ locks' = r.locks
      /\ last' = Call("extend", c, p, ttl, ~r.err, r.err)
      /\ UNCHANGED <<otherVars, now, cbVars, calls, schedVars>>

DoSweep ==
  /\ locks' = CleanExpiredLocks(locks, now)
  /\ last' = Call("sweep", None, None, 0, TRUE, FALSE)
  /\ UNCHANGED <<otherVars, now, cbVars, calls, schedVars>>

TTLMonitor ==
  /\ \E l \in locks :
       /\ TTLExpired(l, now)
       /\ locks' = locks \ {l}
  /\ last' = Call("ttl", None, None, 0, TRUE, FALSE)
  /\ UNCHANGED <<otherVars, now, cbVars, calls, schedVars>>

AdvanceClock ==
  /\ now < MaxTime
  /\ now' = now + 1
  /\ last' = Call("clock", None, None, 0, TRUE, FALSE)
  /\ UNCHANGED <<otherVars, locks, cbVars, calls, schedVars>>

LeaseNext ==
  \/ \E c \in Configs, p \in Pods, ttl \in TTLs : DoAcquire(c, p, ttl)
  \/ \E c \in Configs, p \in Pods : DoRelease(c, p)
  \/ \E p \in Pods : DoReleaseAll(p)
  \/ \E c \in Configs, p \in Pods, ttl \in TTLs : DoExtend(c, p, ttl)
  \/ DoSweep
  \/ TTLMonitor
  \/ AdvanceClock

\* the steps of the executeHealthCheck goroutine started as the i-th
executeHealthCheck(i) ==
  \E w \in workers :
    /\ w.id = i
    /\ \/ WorkerReserve(w)
       \/ WorkerStopped(w)
       \/ \E err \in BOOLEAN : WorkerExecute(w, err)
       \/ \E ok \in BOOLEAN : WorkerWriteback(w, ok)
       \/ WorkerRelease(w)

\* one pod's scheduler from Start to Stop, with the errors its workers log
\* and go on from: Execute returning an error, UpdateScheduledRun failing
WorkerNext ==
  \/ \E p \in StoppingPods : Tick(p)
  \/ \E p \in StoppingPods : TickAcquire(p)
  \/ \E w \in workers : WorkerReserve(w)
  \/ \E w \in workers : WorkerStopped(w)
  \/ \E w \in workers, err \in BOOLEAN : WorkerExecute(w, err)
  \/ \E w \in workers, ok \in BOOLEAN : WorkerWriteback(w, ok)
  \/ \E w \in workers : WorkerRelease(w)
  \/ \E p \in StoppingPods, buffered \in BOOLEAN : StopSignal(p, buffered)
  \/ \E p \in StoppingPods : RunExit(p)
  \/ \E p \in StoppingPods, timedOut \in BOOLEAN : StopFinish(p, timedOut)
  \/ SchedTTLMonitor
  \/ SchedClock

\* ------------------------------------------------- administrative update
\* HealthCheckConfig.Validate at time t, for a config with its schedule
\* enabled: a NextScheduledRun left zero becomes schedule.Next(t)
Validate(config, t) ==
  IF config.schedule_enabled /\ config.next_scheduled_run = ZeroTime
    THEN [config EXCEPT !.next_scheduled_run = CronNext(t)]
    ELSE config

\* PUT /api/v1/health-checks/{id}: the body is decoded into a
\* HealthCheckConfig, validated, and ReplaceOne puts it in the place of the
\* stored document, last_scheduled_run and next_scheduled_run included;
\* lastRun and nextRun are what the body carries for them (zero when it
\* leaves them out)
AdminUpdate(c, lastRun, nextRun) ==
  /\ cfgs' = [cfgs EXCEPT ![c] =
       Validate([enabled |-> TRUE, schedule_enabled |-> TRUE,
                 last_scheduled_run |-> lastRun, next_scheduled_run |-> nextRun], now)]
  /\ cfgs'[c] # cfgs[c]
  /\ UNCHANGED <<otherVars, now, leaseVars, cbVars, calls, history, sched, workers,
                 spawned, writebacks>>

\* the schedulers at work while configs are updated through the API
AdminNext ==
  \/ SchedNext
  \/ \E c \in SchedConfigs, lastRun \in {ZeroTime, 0}, nextRun \in {ZeroTime, 0} :
       AdminUpdate(c, lastRun, nextRun)

\* ------------------------------------------------------------ worker pool
\* NewWorkerPool(workers, jobQueueSize): both channels have jobQueueSize slots
PoolWorkers == 2
JobQueueSize == 1
PoolWorkerIDs == 1..PoolWorkers
\* the jobs the callers submit, one Submit call each
PoolJobs == {"j1", "j2", "j3"}

Job(j, async) == [id |-> j, Async |-> async]
NoJob == [id |-> "none", Async |-> FALSE]

NewWorkerPool ==
  [started |-> FALSE, jobs |-> <<>>, jobsClosed |-> FALSE,
   results |-> <<>>, resultsClosed |-> FALSE, ctx |-> "active", stop |-> "none"]

PoolInit ==
  /\ pool = NewWorkerPool
  /\ pw = [w \in PoolWorkerIDs |-> [pc |-> "off", job |-> NoJob]]
  /\ sub = [j \in PoolJobs |-> [pc |-> "new", Async |-> FALSE]]
  /\ poolLog = [executed |-> [j \in PoolJobs |-> 0],
                by |-> [j \in PoolJobs |-> {}],
                emitted |-> [j \in PoolJobs |-> 0]]

PoolFrame == UNCHANGED <<now, leaseVars, cbVars, calls, schedVars, retryVars,
                         execVars, asyncVars>>

\* Start: one goroutine per worker, each counted in the WaitGroup
PoolStart ==
  /\ ~pool.started
  /\ pool' = [pool EXCEPT !.started = TRUE]
  /\ pw' = [w \in PoolWorkerIDs |-> [pc |-> "recv", job |-> NoJob]]
  /\ UNCHANGED <<sub, poolLog>>
  /\ PoolFrame

\* Submit: the caller enters the select on the jobs channel and ctx.Done()
Submit(j, async) ==
  /\ sub[j].pc = "new"
  /\ sub' = [sub EXCEPT ![j] = [pc |-> "select", Async |-> async]]
  /\ UNCHANGED <<pool, pw, poolLog>>
  /\ PoolFrame

\* case wp.jobs <- job: the channel is open and has a free slot
SubmitSend(j) ==
  /\ sub[j].pc = "select"
  /\ ~pool.jobsClosed
  /\ Len(pool.jobs) < JobQueueSize
  /\ pool' = [pool EXCEPT !.jobs = Append(@, Job(j, sub[j].Async))]
  /\ sub' = [sub EXCEPT ![j].pc = "accepted"]
  /\ UNCHANGED <<pw, poolLog>>
  /\ PoolFrame

\* case wp.jobs <- job on the channel Stop has closed: the send is ready and
\* panics, whatever the other case of the select
SubmitClosed(j) ==
  /\ sub[j].pc = "select"
  /\ pool.jobsClosed
  /\ sub' = [sub EXCEPT ![j].pc = "panic"]
  /\ UNCHANGED <<pool, pw, poolLog>>
  /\ PoolFrame

\* case <-wp.ctx.Done(): return wp.ctx.Err()
SubmitCancelled(j) ==
  /\ sub[j].pc = "select"
  /\ pool.ctx = "cancelled"
  /\ sub' = [sub EXCEPT ![j].pc = "error"]
  /\ UNCHANGED <<pool, pw, poolLog>>
  /\ PoolFrame

\* for job := range wp.jobs: the next job of the channel
WorkerReceive(w) ==
  /\ pw[w].pc = "recv"
  /\ pool.jobs # <<>>
  /\ pw' = [pw EXCEPT ![w] = [pc |-> "exec", job |-> Head(pool.jobs)]]
  /\ pool' = [pool EXCEPT !.jobs = Tail(@)]
  /\ UNCHANGED <<sub, poolLog>>
  /\ PoolFrame

\* the range ends when the channel is closed and drained; wg.Done()
WorkerExit(w) ==
  /\ pw[w].pc = "recv"
  /\ pool.jobs = <<>>
  /\ pool.jobsClosed
  /\ pw' = [pw EXCEPT ![w] = [pc |-> "exited", job |-> NoJob]]
  /\ UNCHANGED <<pool, sub, poolLog>>
  /\ PoolFrame

\* a worker that sends a Result for an async job as well
WorkerRunSendsAsync(w) ==
  /\ pw[w].pc = "exec"
  /\ poolLog' = [poolLog EXCEPT !.executed[pw[w].job.id] = @ + 1,
                                !.by[pw[w].job.id] = @ \cup {w}]
  /\ pw' = [pw EXCEPT ![w].pc = "send"]
  /\ UNCHANGED <<pool, sub>>
  /\ PoolFrame

\* wp.executorFn(job.Context, ...), then continue for an async job
WorkerRun(w) ==
  /\ pw[w].pc = "exec"
  /\ poolLog' = [poolLog EXCEPT !.executed[pw[w].job.id] = @ + 1,
                                !.by[pw[w].job.id] = @ \cup {w}]
  /\ pw' = IF pw[w].job.Async
             THEN [pw EXCEPT ![w] = [pc |-> "recv", job |-> NoJob]]
             ELSE [pw EXCEPT ![w].pc = "send"]
  /\ UNCHANGED <<pool, sub>>
  /\ PoolFrame

\* the select on wp.results <- jobResult and wp.ctx.Done(): the send needs a
\* free slot (and panics on a closed channel), a cancelled context ends the
\* worker without a Result
WorkerSendResult(w) ==
  /\ pw[w].pc = "send"
  /\ \/ /\ ~pool.resultsClosed
        /\ Len(pool.results) < JobQueueSize
        /\ pool' = [pool EXCEPT !.results = Append(@, pw[w].job.id)]
        /\ poolLog' = [poolLog EXCEPT !.emitted[pw[w].job.id] = @ + 1]
        /\ pw' = [pw EXCEPT ![w] = [pc |-> "recv", job |-> NoJob]]
     \/ /\ pool.resultsClosed
        /\ pw' = [pw EXCEPT ![w] = [pc |-> "panic", job |-> NoJob]]
        /\ UNCHANGED <<pool, poolLog>>
     \/ /\ pool.ctx = "cancelled"
        /\ pw' = [pw EXCEPT ![w] = [pc |-> "exited", job |-> NoJob]]
        /\ UNCHANGED <<pool, poolLog>>
  /\ UNCHANGED sub
  /\ PoolFrame

\* whoever reads GetResults() takes the oldest Result
ConsumeResult ==
  /\ pool.results # <<>>
  /\ pool' = [pool EXCEPT !.results = Tail(@)]
  /\ UNCHANGED <<pw, sub, poolLog>>
  /\ PoolFrame

\* Stop, called once on a started pool: close(wp.jobs)
StopCloseJobs ==
  /\ pool.started
  /\ pool.stop = "none"
  /\ pool' = [pool EXCEPT !.jobsClosed = TRUE, !.stop = "waiting"]
  /\ UNCHANGED <<pw, sub, poolLog>>
  /\ PoolFrame

\* wp.wg.Wait() returns when every worker has returned
StopWaited ==
  /\ pool.stop = "waiting"
  /\ \A w \in PoolWorkerIDs : pw[w].pc \in {"exited", "panic"}
  /\ pool' = [pool EXCEPT !.stop = "waited"]
  /\ UNCHANGED <<pw, sub, poolLog>>
  /\ PoolFrame

\* close(wp.results)
StopCloseResults ==
  /\ pool.stop = "waited"
  /\ pool' = [pool EXCEPT !.resultsClosed = TRUE, !.stop = "closed"]
  /\ UNCHANGED <<pw, sub, poolLog>>
  /\ PoolFrame

\* wp.cancel(), and Stop returns
StopCancel ==
  /\ pool.stop = "closed"
  /\ pool' = [pool EXCEPT !.ctx = "cancelled", !.stop = "done"]
  /\ UNCHANGED <<pw, sub, poolLog>>
  /\ PoolFrame

PoolWorkerStep(w) ==
  WorkerReceive(w) \/ WorkerExit(w) \/ WorkerRun(w) \/ WorkerSendResult(w)

PoolStopStep == StopCloseJobs \/ StopWaited \/ StopCloseResults \/ StopCancel

PoolNext ==
  \/ PoolStart
  \/ \E j \in PoolJobs, async \in BOOLEAN : Submit(j, async)
  \/ \E j \in PoolJobs : SubmitSend(j)
  \/ \E j \in PoolJobs : SubmitClosed(j)
  \/ \E j \in PoolJobs : SubmitCancelled(j)
  \/ \E w \in PoolWorkerIDs : WorkerReceive(w)
  \/ \E w \in PoolWorkerIDs : WorkerExit(w)
  \/ \E w \in PoolWorkerIDs : WorkerRun(w)
  \/ \E w \in PoolWorkerIDs : WorkerSendResult(w)
  \/ ConsumeResult
  \/ StopCloseJobs
  \/ StopWaited
  \/ StopCloseResults
  \/ StopCancel

\* ------------------------------------------------------- async job registry
\* the jobIds uuid.New() hands out, one SubmitJob call each
AsyncJobs == {"job1", "job2"}
JobStatuses == {"queued", "processing", "completed", "failed"}
Absent == "absent"

NewJobStatusStore == [j \in AsyncJobs |-> Absent]

NoAsyncJob ==
  [sub |-> "idle", go |-> "none", cancelled |-> FALSE, ctx |-> "none",
   err |-> FALSE, aborted |-> FALSE, seenCancel |-> FALSE, atReturn |-> Absent,
   trail |-> <<>>]

AsyncInit ==
  /\ jobStore = NewJobStatusStore
  /\ aj = [j \in AsyncJobs |-> NoAsyncJob]

AsyncFrame == UNCHANGED <<now, leaseVars, cbVars, calls, schedVars, retryVars,
                          execVars, poolVars>>

\* a SubmitJob that hands the request's context to the goroutine
RequestContext(j) == "request"

\* the context SubmitJob gives executeAsync: context.Background()
AsyncContext(j) == "background"

\* SubmitJob: the status is stored as queued
SubmitJobStore(j) ==
  /\ aj[j].sub = "idle"
  /\ jobStore' = [jobStore EXCEPT ![j] = "queued"]
  /\ aj' = [aj EXCEPT ![j].sub = "stored", ![j].trail = Append(@, "queued")]
  /\ AsyncFrame

\* SubmitJob: go ae.executeAsync(context.Background(), ...)
SubmitJobGo(j) ==
  /\ aj[j].sub = "stored"
  /\ aj' = [aj EXCEPT ![j].sub = "spawned", ![j].go = "start",
                      ![j].ctx = AsyncContext(j)]
  /\ UNCHANGED jobStore
  /\ AsyncFrame

\* SubmitJob returns the jobId; the goroutine may have run already
SubmitJobReturn(j) ==
  /\ aj[j].sub = "spawned"
  /\ aj' = [aj EXCEPT ![j].sub = "returned", ![j].atReturn = jobStore[j]]
  /\ UNCHANGED jobStore
  /\ AsyncFrame

\* the submitter's context (the HTTP request's) is cancelled: the client
\* went away, or the handler returned
CancelRequest(j) ==
  /\ aj[j].sub # "idle"
  /\ ~aj[j].cancelled
  /\ aj' = [aj EXCEPT ![j].cancelled = TRUE]
  /\ UNCHANGED jobStore
  /\ AsyncFrame

\* executeAsync: the status becomes processing
ExecuteAsyncStart(j) ==
  /\ aj[j].go = "start"
  /\ jobStore' = [jobStore EXCEPT ![j] = IF @ # Absent THEN "processing" ELSE @]
  /\ aj' = [aj EXCEPT ![j].go = "executing",
                      ![j].trail = IF jobStore[j] # Absent
                                     THEN Append(@, "processing") ELSE @]
  /\ AsyncFrame

\* ae.executor.Execute(ctx, configID, correlationID) returns; a call whose
\* context is cancelled is aborted and returns an error
ExecuteAsyncCall(j, err) ==
  /\ aj[j].go = "executing"
  /\ LET aborted == aj[j].ctx = "request" /\ aj[j].cancelled
     IN  /\ aborted => err
         /\ aj' = [aj EXCEPT ![j].go = "returned", ![j].err = err,
                             ![j].aborted = aborted,
                             ![j].seenCancel = aj[j].cancelled]
  /\ UNCHANGED jobStore
  /\ AsyncFrame

\* an executeAsync that records every job as completed
ExecuteAsyncFinishCompleted(j) ==
  /\ aj[j].go = "returned"
  /\ jobStore' = [jobStore EXCEPT ![j] = "completed"]
  /\ aj' = [aj EXCEPT ![j].go = "done", ![j].trail = Append(@, "completed")]
  /\ AsyncFrame

\* executeAsync: failed on an error of Execute, completed otherwise
ExecuteAsyncFinish(j) ==
  /\ aj[j].go = "returned"
  /\ LET status == IF aj[j].err THEN "failed" ELSE "completed"
     IN  /\ jobStore' = [jobStore EXCEPT ![j] = IF @ # Absent THEN status ELSE @]
         /\ aj' = [aj EXCEPT ![j].go = "done",
                             ![j].trail = IF jobStore[j] # Absent
                                            THEN Append(@, status) ELSE @]
  /\ AsyncFrame

executeAsync(j) ==
  \/ ExecuteAsyncStart(j)
  \/ \E err \in BOOLEAN : ExecuteAsyncCall(j, err)
  \/ ExecuteAsyncFinish(j)

AsyncNext ==
  \/ \E j \in AsyncJobs : SubmitJobStore(j)
  \/ \E j \in AsyncJobs : SubmitJobGo(j)
  \/ \E j \in AsyncJobs : SubmitJobReturn(j)
  \/ \E j \in AsyncJobs : CancelRequest(j)
  \/ \E j \in AsyncJobs : ExecuteAsyncStart(j)
  \/ \E j \in AsyncJobs, err \in BOOLEAN : ExecuteAsyncCall(j, err)
  \/ \E j \in AsyncJobs : ExecuteAsyncFinish(j)

\* ------------------------------------------------------- specifications
Init ==
  /\ now = 0
  /\ LeaseInit
  /\ CBInit
  /\ DispatchInit
  /\ SchedInit
  /\ RetryInit
  /\ ExecInit
  /\ PoolInit
  /\ AsyncInit

\* a RetryStrategy built from any RetryConfig
RetryStrategyInit ==
  /\ now = 0
  /\ LeaseInit
  /\ CBInit
  /\ DispatchInit
  /\ SchedInit
  /\ rs \in RetryConfigs
  /\ fn = NoRetryCall
  /\ ExecInit
  /\ PoolInit
  /\ AsyncInit

SpecLease == Init /\ [][LeaseNext]_vars

SpecCB == Init /\ [][CBNext]_vars

SpecDispatch == Init /\ [][DispatchNext]_vars

SpecSched == Init /\ [][SchedNext]_vars

SpecShutdown == Init /\ [][ShutdownNext]_vars

SpecSendAlert == Init /\ [][SendAlertNext]_vars

SpecExecute == Init /\ [][ExecNext]_vars

SpecRetryStrategy == RetryStrategyInit /\ [][RetryStrategyNext]_vars

SpecAdmin == Init /\ [][AdminNext]_vars

SpecShared == Init /\ [][SharedNext]_vars

SpecWorker == Init /\ [][WorkerNext]_vars

\* a started executeHealthCheck goroutine runs on
SpecWorkerFair ==
  SpecWorker /\ \A i \in 1..MaxSpawn : WF_vars(executeHealthCheck(i))

SpecPool == Init /\ [][PoolNext]_vars

\* the pool's own goroutines and Stop run whenever they can; nothing makes a
\* caller submit or a reader take results
SpecPoolFair ==
  /\ SpecPool
  /\ \A w \in PoolWorkerIDs : WF_vars(PoolWorkerStep(w))
  /\ WF_vars(PoolStopStep)

SpecAsync == Init /\ [][AsyncNext]_vars

\* a started goroutine runs, and its call of Execute returns
SpecAsyncFair == SpecAsync /\ \A j \in AsyncJobs : WF_vars(executeAsync(j))

\* ------------------------------------------------------------ lease claims
Holders(store, c, t) ==
  {p \in Pods : \E l \in store : l.config_id = c /\ l.locked_by = p /\ l.expires_at > t}

\* C1: in every reachable state of the lock collection each config_id has at
\* most one lock document, hence at most one pod holds an unexpired lock.
LeaseMutualExclusion ==
  \A c \in Configs :
    /\ Cardinality(LocksOf(locks, c)) <= 1
    /\ Cardinality(Holders(locks, c, now)) <= 1

\* a pod was just refused a config that another pod holds unexpired
LeaseContendedReached ==
  /\ last.op = "acquire"
  /\ ~last.ok
  /\ \E l \in locks : /\ l.config_id = last.config_id
                      /\ l.locked_by # last.pod
                      /\ l.expires_at > now

\* C4: an acquire reports success only against an absent or expired lock and
\* then leaves exactly the caller's lock expiring at now + ttl; against that
\* absent-or-expired state it does succeed and no acquire of another pod at
\* the same instant succeeds after it; against an unexpired lock (the
\* caller's own included) it fails and changes nothing.
AcquireContract ==
  last.op = "acquire" =>
    LET c   == last.config_id
        p   == last.pod
        t   == last.at
        pre == LocksOf(last.pre, c)
        free == \A l \in pre : l.expires_at < t
    IN  /\ last.ok => free
        /\ last.ok => LocksOf(locks, c) = {ScheduleLock(c, p, t, t + last.ttl)}
        /\ free => last.ok
        /\ last.ok => \A p2 \in Pods \ {p}, ttl2 \in TTLs :
                        ~AcquireLock(locks, c, p2, t, ttl2).acquired
        /\ ~free => ~last.ok /\ locks = last.pre

\* a pod was just refused a config whose unexpired lock is its own
AcquireOwnUnexpiredReached ==
  /\ last.op = "acquire"
  /\ ~last.ok
  /\ \E l \in last.pre : /\ l.config_id = last.config_id
                         /\ l.locked_by = last.pod
                         /\ l.expires_at >= last.at

\* C5: release deletes the config's lock exactly when the caller owns it,
\* otherwise returns without error and changes nothing; locks of other
\* configs are never touched.
ReleaseContract ==
  last.op = "release" =>
    LET c    == last.config_id
        mine == {l \in last.pre : l.config_id = c /\ l.locked_by = last.pod}
    IN  /\ ~last.err
        /\ locks = last.pre \ mine
        /\ mine = {} => locks = last.pre
        /\ \A c2 \in Configs \ {c} : LocksOf(locks, c2) = LocksOf(last.pre, c2)

\* a release by a pod that does not own the config's existing lock
ReleaseNotOwnedReached ==
  /\ last.op = "release"
  /\ \E l \in last.pre : l.config_id = last.config_id /\ l.locked_by # last.pod
  /\ \E l \in last.pre : l.config_id # last.config_id

\* C6: once the clock has passed a lock's expires_at an acquire of that
\* config by any pod succeeds, whoever held it; sweep removes exactly the
\* locks with expires_at < now.
CrashRecovery ==
  /\ last.op = "acquire" =>
       ((\A l \in LocksOf(last.pre, last.config_id) : l.expires_at < last.at)
          => /\ last.ok
             /\ \E l \in locks : l.config_id = last.config_id /\ l.locked_by = last.pod)
  /\ last.op = "sweep" =>
       locks = {l \in last.pre : l.expires_at >= last.at}

\* a pod just took over the expired lock another pod never released
TakeoverReached ==
  /\ last.op = "acquire"
  /\ last.ok
  /\ \E l \in last.pre : /\ l.config_id = last.config_id
                         /\ l.locked_by # last.pod
                         /\ l.expires_at < last.at

\* ---------------------------------------------------------- breaker claims
\* C7: from Closed the breaker opens exactly on the RecordFailure that makes
\* failureThreshold failures with no RecordSuccess in between; RecordSuccess
\* in Closed resets the count; nothing else opens a Closed breaker.
ClosedOpensAtThreshold ==
  /\ cb.state = StateClosed => cb.failureCount = streak /\ streak < FailureThreshold
  /\ (cbLast.op = "failure" /\ cbLast.pre.state = StateClosed) =>
       /\ cb.state \in {StateClosed, StateOpen}
       /\ cb.state = StateOpen <=> streak = FailureThreshold
  /\ (cbLast.op = "success" /\ cbLast.pre.state = StateClosed) =>
       /\ cb.state = StateClosed
       /\ cb.failureCount = 0
  /\ (cbLast.pre.state = StateClosed /\ cb.state = StateOpen) => cbLast.op = "failure"

\* the fifth failure in a row has just opened the breaker
OpenedAtThresholdReached ==
  /\ cbLast.op = "failure"
  /\ cbLast.pre.state = StateClosed
  /\ cb.state = StateOpen
  /\ streak = FailureThreshold

\* C8: in Open, CanAttempt returns false and changes nothing until
\* openTimeout has passed since the breaker entered Open, and then returns
\* true and moves to HalfOpen; outcomes recorded while Open neither change
\* the state nor move that moment; in Closed and HalfOpen it returns true
\* and changes nothing.
OpenUntilTimeout ==
  /\ cbLast.op = "canAttempt" =>
       IF cbLast.pre.state = StateOpen
       THEN IF cbLast.at - openedAt >= OpenTimeout
            THEN cbLast.ret /\ cb.state = StateHalfOpen
            ELSE ~cbLast.ret /\ cb = cbLast.pre
       ELSE cbLast.ret /\ cb = cbLast.pre
  /\ (cbLast.pre.state = StateOpen /\ cbLast.op \in {"failure", "success"}) =>
       cb.state = StateOpen
  /\ (cbLast.pre.state = StateOpen /\ cb.state = StateHalfOpen) =>
       cbLast.op = "canAttempt"

\* CanAttempt has just half-opened, exactly openTimeout after the opening, a
\* breaker on which a failure was recorded while it was Open
HalfOpenedAfterFailureWhileOpenReached ==
  /\ cbLast.op = "canAttempt"
  /\ cbLast.pre.state = StateOpen
  /\ cb.state = StateHalfOpen
  /\ cbLast.pre.lastFailureTime > openedAt
  /\ cbLast.at - openedAt = OpenTimeout

\* C9: in HalfOpen a RecordFailure opens the breaker; a RecordSuccess closes
\* it exactly when it is the successThreshold-th since the breaker became
\* HalfOpen, and then both counters are 0.
HalfOpenTransitions ==
  /\ (cbLast.op = "failure" /\ cbLast.pre.state = StateHalfOpen) =>
       cb.state = StateOpen
  /\ (cbLast.op = "success" /\ cbLast.pre.state = StateHalfOpen) =>
       /\ cb.state \in {StateHalfOpen, StateClosed}
       /\ cb.state = StateClosed <=> hoSucc = SuccessThreshold
       /\ cb.state = StateClosed => cb.failureCount = 0 /\ cb.successCount = 0
  /\ cb.state = StateHalfOpen => hoSucc < SuccessThreshold
  /\ (cbLast.pre.state = StateHalfOpen /\ cb.state = StateClosed) =>
       cbLast.op \in {"success", "reset"}

\* the second success in HalfOpen has just closed the breaker
ClosedFromHalfOpenReached ==
  /\ cbLast.op = "success"
  /\ cbLast.pre.state = StateHalfOpen
  /\ cb.state = StateClosed
  /\ hoSucc = SuccessThreshold

\* ------------------------------------------------------- dispatcher claims
\* C10: when CanAttempt forbids, SendAlert returns at once an AlertLog with
\* no attempt and FinalStatus failed together with the circuit-open error,
\* has sent no request, and has left the breaker exactly as it was.
CircuitOpenFailsFast ==
  /\ \A i \in Senders :
       calls[i].err = ErrCircuitOpen =>
         /\ calls[i].pc = "returned"
         /\ calls[i].log.Attempts = <<>>
         /\ calls[i].log.FinalStatus = "failed"
         /\ calls[i].sent = 0
  /\ (cbLast.op = "canAttempt" /\ cbLast.by \in Senders) =>
       IF cbLast.ret
       THEN /\ calls[cbLast.by].pc = "attempt"
            /\ calls[cbLast.by].err = None
       ELSE /\ calls[cbLast.by].err = ErrCircuitOpen
            /\ cb = cbLast.pre

\* a SendAlert has just been refused by the open breaker while another
\* caller is in the middle of its delivery
RefusedWhileOtherDeliversReached ==
  /\ cbLast.op = "canAttempt"
  /\ cbLast.by \in Senders
  /\ ~cbLast.ret
  /\ cb.state = StateOpen
  /\ calls[cbLast.by].err = ErrCircuitOpen
  /\ \E j \in Senders \ {cbLast.by} : calls[j].pc \in {"attempt", "sleep"}

\* -------------------------------------------------------- scheduler claims
Instants == 0..(MaxSchedTime + Period)

ExecutionsOf(c, t) ==
  {i \in DOMAIN history : history[i].config_id = c /\ history[i].scheduled = t}

AdvancesOf(c, t) ==
  {wb \in writebacks : wb.config_id = c /\ wb.scheduled = t}

\* C2: for every config and every scheduled instant (the next_scheduled_run
\* under which ticks found the config due) at most one ExecutionHistory is
\* written and next_scheduled_run is advanced at most once, whatever the
\* interleaving of the pods' ticks and workers.
OneExecutionPerInstant ==
  \A c \in SchedConfigs, t \in Instants :
    /\ Cardinality(ExecutionsOf(c, t)) <= 1
    /\ Cardinality(AdvancesOf(c, t)) <= 1

\* C3: for every config at most one executeHealthCheck goroutine is alive
\* (from the acquisition of its lock to its release) on all pods together.
OneWorkerPerConfig ==
  \A c \in SchedConfigs :
    Cardinality({w \in workers : w.config.ID = c}) <= 1

\* ---------------------------------------------------- retry strategy claims
\* C13: ShouldRetry is false from attempt maxAttempts on; before that it is
\* true on an error, true on 5xx and 429, false on any other 4xx, true on any
\* other status >= 300 and false on 2xx without error.
ShouldRetryContract ==
  fn.op = "shouldRetry" =>
    LET max == NewRetryStrategy(rs).MaxAttempts
        n   == fn.attempt
        st  == fn.statusCode
    IN  /\ n >= max => ~fn.retry
        /\ (n < max /\ fn.err) => fn.retry
        /\ (n < max /\ ~fn.err /\ (st \in 500..599 \/ st = 429)) => fn.retry
        /\ (n < max /\ ~fn.err /\ st \in 400..499 /\ st # 429) => ~fn.retry
        /\ (n < max /\ ~fn.err /\ st >= 300 /\ st \notin 400..599) => fn.retry
        /\ (~fn.err /\ st \in 200..299) => ~fn.retry

\* a 429 answered without error is retried before the last attempt
RateLimitedRetriedReached ==
  /\ fn.op = "shouldRetry"
  /\ fn.statusCode = 429
  /\ ~fn.err
  /\ fn.attempt = 2
  /\ NewRetryStrategy(rs).MaxAttempts = DefaultMaxAttempts
  /\ fn.retry

StatusOf(log) == [k \in 1..Len(log.Attempts) |-> log.Attempts[k].StatusCode]

\* C11: a 2xx answer on attempt k ends the call with exactly k attempts
\* (k <= maxAttempts), FinalStatus delivered, no error and a RecordSuccess;
\* 500, 503, 200 under the default maxAttempts therefore gives three attempts,
\* delivered, and a breaker that was Closed is Closed with failureCount 0.
DeliveredOnSuccess ==
  \A i \in Senders :
    LET c == calls[i]
        n == Len(c.log.Attempts)
    IN  /\ \A k \in 1..n :
             c.log.Attempts[k].StatusCode \in 200..299 =>
               /\ k = n
               /\ c.pc = "returned"
               /\ c.log.FinalStatus = "delivered"
               /\ c.err = None
               /\ n = c.attempt
               /\ n <= c.maxAttempts
               /\ c.sent = n
        /\ c.log.FinalStatus = "delivered" =>
             /\ n >= 1
             /\ c.log.Attempts[n].StatusCode \in 200..299
             /\ cbLast.op = "success"
             /\ cbLast.by = i
             /\ cbLast.pre.state = StateClosed =>
                  cb.state = StateClosed /\ cb.failureCount = 0
        /\ (StatusOf(c.log) = <<500, 503, 200>> /\ c.maxAttempts = DefaultMaxAttempts) =>
             c.log.FinalStatus = "delivered" /\ n = 3

\* 500, 503, 200 under the default maxAttempts, on a Closed breaker that had
\* counted a failure
RetryThenSuccessReached ==
  \E i \in Senders :
    /\ StatusOf(calls[i].log) = <<500, 503, 200>>
    /\ calls[i].maxAttempts = DefaultMaxAttempts
    /\ calls[i].log.FinalStatus = "delivered"
    /\ cbLast.pre.state = StateClosed
    /\ cbLast.pre.failureCount > 0
    /\ cb.state = StateClosed
    /\ cb.failureCount = 0

\* C12: a first answer with a 4xx status other than 429, with maxAttempts >
\* 1, ends the call: one attempt, FinalStatus failed, one more failure
\* counted by the breaker.
NonRetryableStops ==
  \A i \in Senders :
    LET c == calls[i]
        n == Len(c.log.Attempts)
    IN  (/\ n >= 1
         /\ c.log.Attempts[1].StatusCode \in 400..499
         /\ c.log.Attempts[1].StatusCode # 429
         /\ c.maxAttempts > 1) =>
          /\ n = 1
          /\ c.pc = "returned"
          /\ c.log.FinalStatus = "failed"
          /\ cbLast.op = "failure"
          /\ cb.failureCount = cbLast.pre.failureCount + 1

\* C15: a call that returns the context's error was cancelled in the backoff
\* after attempt k < maxAttempts: it made exactly k attempts, none of them
\* delivered, and its AlertLog has FinalStatus failed.
CancelledDuringBackoff ==
  \A i \in Senders :
    LET c == calls[i]
        n == Len(c.log.Attempts)
    IN  c.err = ErrContext =>
          /\ c.pc = "returned"
          /\ n = c.attempt
          /\ c.sent = n
          /\ n >= 1
          /\ n < c.maxAttempts
          /\ c.log.FinalStatus = "failed"
          /\ \A k \in 1..n : c.log.Attempts[k].StatusCode \notin 200..299

\* cancelled between attempt 2 and attempt 3 under the default maxAttempts
CancelledAfterSecondReached ==
  \E i \in Senders :
    /\ calls[i].err = ErrContext
    /\ calls[i].maxAttempts = DefaultMaxAttempts
    /\ Len(calls[i].log.Attempts) = 2
    /\ calls[i].log.FinalStatus = "failed"

\* ---------------------------------------------------------- executor claims
\* C16: an Execute that returns an execution has its ExecutionHistory in the
\* execution_history collection, also when the caller's context was cancelled
\* while it ran.
HistoryPersistedDespiteCancel ==
  (exec.pc = "returned" /\ exec.err = None /\ exec.saveErr # ErrStore) =>
    \E k \in DOMAIN history :
      /\ history[k].correlation_id = "x1"
      /\ history[k].status = exec.status

\* C17: the status of an execution is failed when the target call had an
\* error, otherwise partial when some RuleEvaluation has an error, otherwise
\* success; the saved ExecutionHistory carries that status.
StatusClassification ==
  (exec.pc = "returned" /\ exec.err = None) =>
    LET ruleError == \E k \in 1..Len(exec.evaluations) :
                       exec.evaluations[k].Error # ""
    IN  /\ exec.response = TransportError => exec.status = "failed"
        /\ (exec.response # TransportError /\ ruleError) => exec.status = "partial"
        /\ (exec.response # TransportError /\ ~ruleError) => exec.status = "success"
        /\ \A k \in DOMAIN history : history[k].status = exec.status

\* a saved execution that is partial although one of its rules matched and
\* its alert was delivered
PartialWithAlertReached ==
  /\ exec.pc = "returned"
  /\ exec.status = "partial"
  /\ exec.alertsTriggered # <<>>
  /\ \E k \in DOMAIN history : history[k].status = "partial"

\* C18: once the alerts of an execution are sent, the rules an alert was
\* dispatched for are exactly the rules whose evaluation matched and whose
\* own AlertOnMatch is true, equally named rules included.
AlertIffMatchedAndFlagged ==
  (exec.pc \in {"save", "returned"} /\ exec.err = None /\ TargetOK(exec.response)) =>
    {a.idx : a \in exec.alerted} =
      {k \in 1..Len(exec.rules) :
         exec.evaluations[k].Matched /\ exec.rules[k].AlertOnMatch}

\* C19: for every alert dispatched by an execution, whatever SendAlert
\* returned, the AlertLog is in the alert_logs collection with its ConfigID
\* and the execution has an AlertTriggered entry for it.
AlertAlwaysRecorded ==
  exec.pc \in {"save", "returned"} =>
    \A a \in exec.alerted :
      /\ \E l \in alertLogs : l.ID = a.id /\ l.ConfigID = ConfigID
      /\ \E k \in 1..Len(exec.alertsTriggered) :
           /\ exec.alertsTriggered[k].AlertID = a.id
           /\ exec.alertsTriggered[k].TriggeredByRule = exec.rules[a.idx].Name

\* C20: after a target call that ended in an error or a status outside 2xx
\* the execution has no RuleEvaluation, has called SendAlert for nothing and
\* no AlertLog exists.
NoAlertsOnTargetFailure ==
  (exec.pc \in {"alert", "save", "returned"} /\ exec.err = None
     /\ (exec.response = TransportError \/ exec.response \notin 200..299)) =>
    /\ exec.pc # "alert"
    /\ exec.evaluations = <<>>
    /\ exec.matchedAlerts = <<>>
    /\ exec.alerted = {}
    /\ exec.alertsTriggered = <<>>
    /\ alertLogs = {}
    /\ \A i \in Senders : calls[i] = Idle
    /\ \A k \in DOMAIN history : /\ history[k].rules_evaluation = <<>>
                                 /\ history[k].alerts_triggered = <<>>

\* an execution saved after the target answered 503, for a config with a
\* rule that alerts on match
Non2xxTargetSavedReached ==
  /\ exec.pc = "returned"
  /\ exec.response = 503
  /\ \E k \in 1..Len(exec.rules) : exec.rules[k].AlertOnMatch
  /\ history # <<>>
  /\ cb.failureCount > 0

\* C21: the evaluations of an execution are in the order of its rules, its
\* alerts are sent in that order, and an alert is sent only after the alert
\* before it has returned from SendAlert and its AlertLog has been written.
SerialInOrder ==
  (exec.pc \in {"alert", "save", "returned"} /\ exec.err = None) =>
    /\ \A k \in 1..Len(exec.evaluations) :
         /\ exec.evaluations[k].idx = k
         /\ exec.evaluations[k].RuleName = exec.rules[k].Name
    /\ \A a, b \in exec.alerted : a.idx < b.idx <=> a.id < b.id
    /\ \A j, k \in 1..Len(exec.matchedAlerts) :
         j < k => exec.matchedAlerts[j].idx < exec.matchedAlerts[k].idx
    /\ \A a \in exec.alerted, k \in 1..Len(exec.matchedAlerts) :
         a.idx < exec.matchedAlerts[k].idx
    /\ Cardinality({i \in Senders : calls[i].pc # "idle"}) <= 1
    /\ \A i \in Senders :
         calls[i].pc # "idle" =>
           /\ exec.pc = "alert"
           /\ \A a \in exec.alerted :
                exec.cancelled \/ \E l \in alertLogs : l.ID = a.id

\* the second alert of an execution is between two attempts; the first was
\* retried and its AlertLog is written
SecondAlertAfterFirstReached ==
  /\ exec.pc = "alert"
  /\ \E i \in Senders : calls[i].pc = "sleep"
  /\ \E a \in exec.alerted :
       /\ a.idx = 1
       /\ \E l \in alertLogs : l.ID = a.id /\ l.Attempts >= 2
  /\ Len(exec.matchedAlerts) = 1
  /\ Head(exec.matchedAlerts).idx = 2

\* C22: a RuleEvaluation with an error is never matched, no alert is sent for
\* it, and the execution is partial; when the body is not JSON every
\* RuleEvaluation has the parse error and no alert is sent.
ErrorNeverMatches ==
  (exec.pc \in {"alert", "save", "returned"} /\ exec.err = None) =>
    /\ \A k \in 1..Len(exec.evaluations) :
         /\ exec.evaluations[k].Matched => exec.evaluations[k].Error = ""
         /\ exec.evaluations[k].Error # "" =>
              /\ \A a \in exec.alerted : a.idx # k
              /\ \A j \in 1..Len(exec.matchedAlerts) : exec.matchedAlerts[j].idx # k
              /\ exec.pc = "returned" => exec.status = "partial"
    /\ (\E k \in 1..Len(exec.evaluations) : exec.evaluations[k].Error = ErrParse) =>
         /\ \A k \in 1..Len(exec.evaluations) : exec.evaluations[k].Error = ErrParse
         /\ exec.alerted = {}
         /\ exec.matchedAlerts = <<>>
         /\ alertLogs = {}

\* a saved execution whose body was not JSON, for two rules that alert on
\* match
NotJSONPartialReached ==
  /\ exec.pc = "returned"
  /\ exec.status = "partial"
  /\ Len(exec.evaluations) = 2
  /\ \A k \in 1..2 : exec.evaluations[k].Error = ErrParse /\ exec.rules[k].AlertOnMatch
  /\ history # <<>>

\* C23: an Execute that returns an error (config not found, or disabled)
\* returns straight from its start and that step writes no ExecutionHistory
\* and no AlertLog, calls neither the target nor SendAlert and leaves the
\* breaker alone.
RefusedExecutionHasNoEffect ==
  [][(exec'.pc = "returned" /\ exec'.err # None /\ exec.pc # "returned") =>
       /\ exec.pc = "idle"
       /\ exec' = [NoExecution EXCEPT !.pc = "returned", !.err = exec'.err,
                                      !.rules = exec'.rules]
       /\ UNCHANGED <<history, alertLogs, calls, cbVars>>]_vars

\* Execute has refused a disabled config while the breaker has counted
\* failures of other executions
DisabledRefusedReached ==
  /\ exec.pc = "returned"
  /\ exec.err = ErrDisabled
  /\ cb.failureCount > 0
  /\ history = <<>>
  /\ alertLogs = {}

\* ------------------------------------------------------- worker pool claims
\* where a job is: in the jobs channel, or in the hands of a worker
InJobsChannel(j) == Cardinality({k \in 1..Len(pool.jobs) : pool.jobs[k].id = j})
HeldBy(j) == {w \in PoolWorkerIDs : pw[w].job.id = j}
SumOver(f, S) ==
  LET RECURSIVE Sum(_)
      Sum(T) == IF T = {} THEN 0
                ELSE LET x == CHOOSE y \in T : TRUE IN f[x] + Sum(T \ {x})
  IN  Sum(S)

SubmitNeverPanics ==
  \A j \in PoolJobs : sub[j].pc \in {"new", "select", "accepted", "error"}

\* C26: once Stop has closed the jobs channel it returns, whoever reads the
\* results, with every queued job executed, every worker gone, the results
\* channel closed and the context cancelled
StopAlwaysTerminates ==
  (pool.stop = "waiting") ~>
     (/\ pool.stop = "done"
      /\ pool.jobs = <<>>
      /\ \A w \in PoolWorkerIDs : pw[w].pc = "exited"
      /\ pool.resultsClosed
      /\ pool.ctx = "cancelled")

\* ------------------------------------------------ async job registry claims
\* the statuses a job goes through, given what Execute returned
StatusPath(err) == <<"queued", "processing", IF err THEN "failed" ELSE "completed">>
IsPrefix(s, t) == Len(s) <= Len(t) /\ \A k \in 1..Len(s) : s[k] = t[k]

\* C27, as the code has it: the statuses stored for a job are, in this order,
\* queued (stored by SubmitJob before it starts the goroutine), processing,
\* and then failed if Execute returned an error and completed otherwise, with
\* nothing stored after that; what SubmitJob's caller finds when the call
\* returns is queued or any later status
StatusOnlyMovesForward ==
  \A j \in AsyncJobs :
    /\ IsPrefix(aj[j].trail, StatusPath(aj[j].err))
    /\ jobStore[j] = (IF aj[j].trail = <<>> THEN Absent
                      ELSE aj[j].trail[Len(aj[j].trail)])
    /\ aj[j].sub # "idle" => aj[j].trail # <<>>
    /\ aj[j].go = "start" => jobStore[j] = "queued"
    /\ aj[j].go \in {"executing", "returned"} => jobStore[j] = "processing"
    /\ aj[j].go = "done" => jobStore[j] = (IF aj[j].err THEN "failed" ELSE "completed")
    /\ aj[j].sub = "returned" => aj[j].atReturn \in JobStatuses

\* a job has failed on an error of Execute, and was past queued when
\* SubmitJob returned
FailedJobPastQueuedAtReturnReached ==
  \E j \in AsyncJobs :
    /\ aj[j].sub = "returned" /\ aj[j].atReturn # "queued"
    /\ aj[j].go = "done" /\ aj[j].err /\ jobStore[j] = "failed"

\* C27, as stated: the same, and the job is queued when SubmitJob returns
StatusQueuedWhenSubmitReturns ==
  \A j \in AsyncJobs :
    /\ IsPrefix(aj[j].trail, StatusPath(aj[j].err))
    /\ aj[j].go = "done" => jobStore[j] = (IF aj[j].err THEN "failed" ELSE "completed")
    /\ aj[j].sub = "returned" => aj[j].atReturn = "queued"

\* C28: no call of Execute made for a job is aborted by the cancellation of
\* its submitter's context, and a job whose SubmitJob has returned reaches
\* completed or failed
CancelDoesNotAbortJob ==
  /\ [](\A j \in AsyncJobs : ~aj[j].aborted)
  /\ \A j \in AsyncJobs :
       (aj[j].sub = "returned") ~> (jobStore[j] \in {"completed", "failed"})

\* a job has completed although its submitter's context was cancelled before
\* Execute was called
CompletedAfterCancelReached ==
  \E j \in AsyncJobs :
    /\ aj[j].sub = "returned" /\ aj[j].seenCancel
    /\ aj[j].go = "done" /\ jobStore[j] = "completed"

\* ------------------------------------------------ scheduler pool claims
\* C29: on every pod the workers that hold a semaphore slot (in Execute, in
\* the writeback or in the release that follows) are never more than
\* Concurrency; and a pod's ticks do not overlap: while one tick is in its
\* loop over the due configs, the only thing that happens to the pod's due
\* list is that this loop advances in it
SemaphoreBoundsWorkers ==
  /\ [](\A p \in Pods : Cardinality(Slots(p)) <= Concurrency)
  /\ [][\A p \in Pods :
          (sched[p].pc = "loop" /\ sched'[p] # sched[p]) =>
             sched'[p].due = Tail(sched[p].due)]_vars

\* a worker waits for a slot of its pod while another worker holds it
WorkerWaitsForSlotReached ==
  \E w1, w2 \in workers :
    /\ w1.pod = w2.pod
    /\ w1.pc = "wait"
    /\ w2.pc \in {"exec", "writeback"}
    /\ Cardinality(Slots(w1.pod)) = Concurrency

\* C30: once Stop has returned on a pod, no lock of the pod is in the store
NoLeaseAfterStop ==
  \A p \in Pods : sched[p].stopped => \A l \in locks : l.locked_by # p

\* C32: an Execute that returns an execution and no error has written that
\* execution, once, into execution_history under its correlation id
ReturnedExecutionIsPersisted ==
  (exec.pc = "returned" /\ exec.err = None) =>
    /\ Cardinality({k \in DOMAIN history : history[k].correlation_id = "x1"}) = 1
    /\ \A k \in DOMAIN history :
         history[k].correlation_id = "x1" =>
           /\ history[k].status = exec.status
           /\ history[k].rules_evaluation = exec.evaluations
           /\ history[k].alerts_triggered = exec.alertsTriggered

\* ------------------------------------------------------ writeback claims
\* C31: last_scheduled_run and next_scheduled_run of a config change only in
\* a step that is a worker's UpdateScheduledRun
OnlyWritebackChangesScheduledRun ==
  [][\A c \in SchedConfigs :
       (\/ cfgs'[c].last_scheduled_run # cfgs[c].last_scheduled_run
        \/ cfgs'[c].next_scheduled_run # cfgs[c].next_scheduled_run)
       => writebacks' # writebacks]_vars

\* C33: a worker that was waiting for a slot when Stop closed stopChan does
\* not go on to Execute
StopBeforeReservationSkipsExecute ==
  [][\A w \in workers :
       (w.pc = "wait" /\ sched[w.pod].stopping /\ w.id <= sched[w.pod].atStop)
         => [w EXCEPT !.pc = "exec"] \notin workers']_vars

BreakerCountersInRange ==
  /\ cb.state = StateClosed => cb.failureCount < FailureThreshold
  /\ cb.state = StateHalfOpen => cb.successCount < SuccessThreshold
  /\ cb.state # StateHalfOpen => cb.successCount = 0
  /\ cb.failureCount >= 0 /\ cb.successCount >= 0

\* a HalfOpen breaker one success short of closing has just been opened again
\* by a failure
HalfOpenFailedAfterSuccessReached ==
  /\ cbLast.op = "failure"
  /\ cbLast.pre.state = StateHalfOpen
  /\ cbLast.pre.successCount = SuccessThreshold - 1
  /\ cb.state = StateOpen

OneOutcomePerAdmittedCall ==
  \A i \in Senders :
    LET c == calls[i]
    IN  c.outcomes =
          (IF c.pc # "returned" THEN <<>>
           ELSE IF c.log.FinalStatus = "delivered" THEN <<"success">>
           ELSE IF c.err = ErrDeliveryFailed THEN <<"failure">>
           ELSE <<>>)

\* a call that failed at its third attempt has moved the breaker's count by
\* one
ThreeAttemptsOneFailureReached ==
  \E i \in Senders :
    /\ calls[i].pc = "returned"
    /\ calls[i].sent = 3
    /\ calls[i].err = ErrDeliveryFailed
    /\ cbLast.op = "failure" /\ cbLast.by = i
    /\ cb.failureCount = cbLast.pre.failureCount + 1

\* C40: the breaker opens on the failureThreshold-th failed call in a row,
\* whoever made the calls, and a SendAlert made while it is Open and
\* openTimeout has not passed is refused with no request sent, whatever the
\* webhook it is for
SharedBreakerRefusesEveryURL ==
  /\ (cbLast.op = "failure" /\ cbLast.pre.state = StateClosed
        /\ cbLast.pre.failureCount + 1 >= FailureThreshold) => cb.state = StateOpen
  /\ \A i \in Senders :
       (/\ cbLast.op = "canAttempt" /\ cbLast.by = i
        /\ cbLast.pre.state = StateOpen
        /\ cbLast.at - cbLast.pre.lastStateChange < OpenTimeout) =>
          /\ ~cbLast.ret
          /\ calls[i].pc = "returned"
          /\ calls[i].err = ErrCircuitOpen
          /\ calls[i].sent = 0
          /\ calls[i].log.Attempts = <<>>
  /\ calls[2].err # ErrDeliveryFailed

\* the caller whose webhook always answers 200 has just been refused by the
\* breaker the other caller's failures opened
HealthyURLRefusedReached ==
  /\ cbLast.op = "canAttempt" /\ cbLast.by = 2
  /\ cb.state = StateOpen
  /\ calls[2].pc = "returned"
  /\ calls[2].err = ErrCircuitOpen
  /\ calls[2].sent = 0

\* --------------------------------------------------- stale release claim
\* C39: when a worker leaves with its release while a worker started later
\* for the same config is still there, the lease on that config, which is
\* not the leaving worker's own any more, stays in the store
ReleaseLeavesNewerLease ==
  [][\A w \in workers :
       (/\ w \notin workers'
        /\ \E v \in workers : v.id > w.id /\ v.config.ID = w.config.ID) =>
          \A l \in locks : l.config_id = w.config.ID => l \in locks']_vars

\* the same, when the later worker belongs to another replica
ReleaseLeavesOtherReplicasLease ==
  [][\A w \in workers :
       (/\ w \notin workers'
        /\ \E v \in workers : v.id > w.id /\ v.config.ID = w.config.ID) =>
          \A l \in locks :
            (l.config_id = w.config.ID /\ l.locked_by # w.pod) => l \in locks']_vars

\* an earlier worker is at its release while another replica's later worker
\* holds the config's lease
StaleWorkerBesideOtherReplicaReached ==
  \E w, v \in workers :
    /\ w.pc = "release"
    /\ v.id > w.id /\ v.config.ID = w.config.ID /\ v.pod # w.pod
    /\ \E l \in locks : l.config_id = w.config.ID /\ l.locked_by = v.pod

====
